---------------------------- MODULE Spec2Model ----------------------------
(***************************************************************************)
(* The request-audit pipeline of the CV project: RequestLoggingMiddleware  *)
(* (src/audit/middleware.py), the RequestLog table (src/audit/models.py)   *)
(* and the reporting views behind cache_page (src/audit/views.py).         *)
(*                                                                         *)
(* Text (paths, headers) is a sequence of one-character strings, so that   *)
(* slicing, startswith, split and strip are computed, not assumed.         *)
(* An optional value (Python None) is a sequence of length 0 or 1.         *)
(* A call that may raise returns [exc, val]; exc = NoExc when it returns.  *)
(***************************************************************************)
EXTENDS Integers, Sequences, FiniteSets, TLC

VARIABLES
    config,   \* the middleware instance's settings and the cache backend
    store,    \* the audit_requestlog table, in insertion order
    nextId,   \* the table's auto-increment primary key
    cache,    \* the cache_page entries of the reporting APIs
    now,      \* the wall clock, in microseconds
    users,    \* the auth_user table: the account of each primary key, if any
    inflight, \* the requests in the middleware at this moment, each with
              \* the attributes process_request has set on it
    tally,    \* counts of the requests handled so far (history)
    last      \* the operation done last and what came of it (history)

vars == <<config, store, nextId, cache, now, users, inflight, tally, last>>

---------------------------------------------------------------------------
(* Python values *)

None == <<>>
Some(v) == <<v>>
IsNone(o) == o = <<>>
Get(o) == o[1]

NoExc == "NoExc"
Ret(v) == [exc |-> NoExc, val |-> v]
Raise(e) == [exc |-> e, val |-> None]

Min(a, b) == IF a <= b THEN a ELSE b

\* s[:n]
Slice(s, n) == SubSeq(s, 1, Min(n, Len(s)))

\* s.startswith(p)
StartsWith(s, p) == Len(p) <= Len(s) /\ SubSeq(s, 1, Len(p)) = p

\* the truth value of "x or None" for a string x
OrNone(s) == IF s = <<>> THEN None ELSE Some(s)

\* d.get(key, '') for an optional entry
GetOrEmpty(o) == IF IsNone(o) THEN <<>> ELSE Get(o)

Whitespace == {" ", "\t"}

\* the index of the first character of s at or after i that satisfies no
\* membership in cs, or Len(s) + 1
RECURSIVE SkipFrom(_, _, _)
SkipFrom(s, i, cs) ==
    IF i > Len(s) THEN Len(s) + 1
    ELSE IF s[i] \in cs THEN SkipFrom(s, i + 1, cs)
    ELSE i

\* the index of the last character of s at or before i that is not in cs, or 0
RECURSIVE SkipBack(_, _, _)
SkipBack(s, i, cs) ==
    IF i < 1 THEN 0
    ELSE IF s[i] \in cs THEN SkipBack(s, i - 1, cs)
    ELSE i

\* s.strip()
Strip(s) ==
    LET a == SkipFrom(s, 1, Whitespace)
        b == SkipBack(s, Len(s), Whitespace)
    IN IF a > b THEN <<>> ELSE SubSeq(s, a, b)

\* the index of the first "," of s at or after i, or Len(s) + 1
RECURSIVE FindComma(_, _)
FindComma(s, i) ==
    IF i > Len(s) THEN Len(s) + 1
    ELSE IF s[i] = "," THEN i
    ELSE FindComma(s, i + 1)

\* s.split(',')[0]
SplitFirst(s) == SubSeq(s, 1, FindComma(s, 1) - 1)

Digits == {"0", "1", "2", "3", "4", "5", "6", "7", "8", "9"}

DigitVal(c) ==
    CASE c = "0" -> 0 [] c = "1" -> 1 [] c = "2" -> 2 [] c = "3" -> 3
      [] c = "4" -> 4 [] c = "5" -> 5 [] c = "6" -> 6 [] c = "7" -> 7
      [] c = "8" -> 8 [] c = "9" -> 9

RECURSIVE DigitsVal(_, _)
DigitsVal(s, acc) ==
    IF s = <<>> THEN acc
    ELSE DigitsVal(Tail(s), 10 * acc + DigitVal(Head(s)))

\* int(s) for a str: surrounding whitespace ignored, an optional sign, then
\* one or more decimal digits; anything else is a ValueError
int(s) ==
    LET t == Strip(s)
        signed == t # <<>> /\ Head(t) \in {"+", "-"}
        d == IF signed THEN Tail(t) ELSE t
    IN IF d = <<>> \/ \E i \in 1..Len(d) : d[i] \notin Digits
       THEN Raise("ValueError")
       ELSE IF signed /\ Head(t) = "-" THEN Ret(0 - DigitsVal(d, 0))
       ELSE Ret(DigitsVal(d, 0))

\* int(x) for a float x: truncation toward zero
Trunc(num, den) ==
    IF num >= 0 THEN num \div den ELSE 0 - ((0 - num) \div den)

---------------------------------------------------------------------------
(* RequestLog (src/audit/models.py) *)

HTTP_METHOD_CHOICES ==
    {"GET", "POST", "PUT", "PATCH", "DELETE", "HEAD", "OPTIONS", "TRACE"}

\* the four PositiveIntegerField columns: the table carries CHECK (col >= 0)
PositiveIntegerFields ==
    {"response_status", "response_time_ms", "request_size_bytes",
     "response_size_bytes"}

\* RequestLog.objects.create(**kwargs): one INSERT. Model.save() runs neither
\* the field validators nor the choices check (that is full_clean()); the
\* database refuses a negative value in a PositiveIntegerField column, and
\* dbFails stands for any other refusal by the database (connection lost, a
\* value the column type does not accept). A refused INSERT writes nothing.
create(kwargs, id, ts, dbFails) ==
    IF dbFails THEN Raise("DatabaseError")
    ELSE IF \E f \in PositiveIntegerFields :
                ~IsNone(kwargs[f]) /\ Get(kwargs[f]) < 0
    THEN Raise("IntegrityError")
    ELSE Ret(Some([id |-> id, timestamp |-> ts] @@ kwargs))

---------------------------------------------------------------------------
(* RequestLoggingMiddleware (src/audit/middleware.py) *)

PathMaxLen == 500
QueryStringMaxLen == 1000
UserAgentMaxLen == 500

S_admin_jsi18n ==
    <<"/", "a", "d", "m", "i", "n", "/", "j", "s", "i", "1", "8", "n", "/">>
S_static == <<"/", "s", "t", "a", "t", "i", "c", "/">>
S_media == <<"/", "m", "e", "d", "i", "a", "/">>
S_favicon == <<"/", "f", "a", "v", "i", "c", "o", "n", ".", "i", "c", "o">>

\* the defaults of __init__, used when the settings do not name the lists
DefaultExcludedPaths == {S_admin_jsi18n, S_static, S_media, S_favicon}
DefaultExcludedMethods == {"OPTIONS"}

\* _get_client_ip without the strip()
_get_client_ip_NoStrip(request) ==
    LET x_forwarded_for == request.HTTP_X_FORWARDED_FOR
    IN IF ~IsNone(x_forwarded_for) /\ Get(x_forwarded_for) # <<>>
       THEN Some(SplitFirst(Get(x_forwarded_for)))
       ELSE request.REMOTE_ADDR

\* request.META.get('HTTP_X_FORWARDED_FOR') is falsy when absent or empty
_get_client_ip(request) ==
    LET x_forwarded_for == request.HTTP_X_FORWARDED_FOR
    IN IF ~IsNone(x_forwarded_for) /\ Get(x_forwarded_for) # <<>>
       THEN Some(Strip(SplitFirst(Get(x_forwarded_for))))
       ELSE request.REMOTE_ADDR

\* the exceptions _get_request_size and _get_response_size catch
CaughtBySize == {"ValueError", "TypeError"}

\* hasattr(request, 'body') evaluates the property: it is False only on an
\* AttributeError, any other exception of the read leaves hasattr
_get_request_size(request) ==
    LET content_length == request.CONTENT_LENGTH
        body == request.body
    IN IF ~IsNone(content_length) /\ Get(content_length) # <<>>
       THEN LET n == int(Get(content_length))
            IN IF n.exc = NoExc THEN Ret(Some(n.val)) ELSE Ret(None)
       ELSE IF body.kind = "noattr" THEN Ret(None)
       ELSE IF body.kind = "bytes" THEN Ret(Some(body.len))
       ELSE IF body.exc \in CaughtBySize THEN Ret(None)
       ELSE Raise(body.exc)

_get_response_size(response) ==
    LET content == response.content
    IN IF content.kind = "noattr" THEN Ret(None)
       ELSE IF content.kind = "bytes" THEN Ret(Some(content.len))
       ELSE IF content.exc \in CaughtBySize THEN Ret(None)
       ELSE Raise(content.exc)

\* _should_log_request comparing the path with == instead of startswith
_should_log_request_ExactPath(self, request) ==
    IF self.log_authenticated_only /\ ~request.has_user
    THEN Raise("AttributeError")
    ELSE IF self.log_authenticated_only /\ ~request.user.is_authenticated
    THEN Ret(FALSE)
    ELSE IF request.method \in self.excluded_methods
    THEN Ret(FALSE)
    ELSE IF request.path \in self.excluded_paths
    THEN Ret(FALSE)
    ELSE Ret(TRUE)

\* request.user is set by the authentication middleware; a request that did
\* not pass it has no such attribute
_should_log_request(self, request) ==
    IF self.log_authenticated_only /\ ~request.has_user
    THEN Raise("AttributeError")
    ELSE IF self.log_authenticated_only /\ ~request.user.is_authenticated
    THEN Ret(FALSE)
    ELSE IF request.method \in self.excluded_methods
    THEN Ret(FALSE)
    ELSE IF \E excluded_path \in self.excluded_paths :
                StartsWith(request.path, excluded_path)
    THEN Ret(FALSE)
    ELSE Ret(TRUE)

\* LogKwargs with the three slices left out
LogKwargs_NoSlice(request, response, start_time, request_size, response_size, t1) ==
    [http_method |-> request.method,
     path |-> request.path,
     query_string |->
         OrNone(GetOrEmpty(request.QUERY_STRING)),
     remote_ip |-> _get_client_ip(request),
     user_agent |->
         OrNone(GetOrEmpty(request.HTTP_USER_AGENT)),
     user |-> IF request.user.is_authenticated /\ ~IsNone(request.user.pk)
              THEN request.user.pk ELSE None,
     response_status |-> Some(response.status_code),
     response_time_ms |->
         IF start_time # 0 THEN Some(Trunc(t1 - start_time, 1000)) ELSE None,
     request_size_bytes |-> request_size,
     response_size_bytes |-> response_size,
     is_authenticated |-> request.user.is_authenticated,
     is_staff |-> IF request.user.is_authenticated
                  THEN request.user.is_staff ELSE FALSE,
     is_superuser |-> IF request.user.is_authenticated
                      THEN request.user.is_superuser ELSE FALSE]

\* LogKwargs that never refers to the user
LogKwargs_NoUser(request, response, start_time, request_size, response_size, t1) ==
    [http_method |-> request.method,
     path |-> Slice(request.path, PathMaxLen),
     query_string |->
         OrNone(Slice(GetOrEmpty(request.QUERY_STRING), QueryStringMaxLen)),
     remote_ip |-> _get_client_ip(request),
     user_agent |->
         OrNone(Slice(GetOrEmpty(request.HTTP_USER_AGENT), UserAgentMaxLen)),
     user |-> None,
     response_status |-> Some(response.status_code),
     response_time_ms |->
         IF start_time # 0 THEN Some(Trunc(t1 - start_time, 1000)) ELSE None,
     request_size_bytes |-> request_size,
     response_size_bytes |-> response_size,
     is_authenticated |-> request.user.is_authenticated,
     is_staff |-> IF request.user.is_authenticated
                  THEN request.user.is_staff ELSE FALSE,
     is_superuser |-> IF request.user.is_authenticated
                      THEN request.user.is_superuser ELSE FALSE]

\* the keyword arguments _log_request hands to create; start_time is the
\* reading of process_request, t1 the reading of time.time() here
LogKwargs(request, response, start_time, request_size, response_size, t1) ==
    [http_method |-> request.method,
     path |-> Slice(request.path, PathMaxLen),
     query_string |->
         OrNone(Slice(GetOrEmpty(request.QUERY_STRING), QueryStringMaxLen)),
     remote_ip |-> _get_client_ip(request),
     user_agent |->
         OrNone(Slice(GetOrEmpty(request.HTTP_USER_AGENT), UserAgentMaxLen)),
     user |-> IF request.user.is_authenticated /\ ~IsNone(request.user.pk)
              THEN request.user.pk ELSE None,
     response_status |-> Some(response.status_code),
     response_time_ms |->
         IF start_time # 0 THEN Some(Trunc(t1 - start_time, 1000)) ELSE None,
     request_size_bytes |-> request_size,
     response_size_bytes |-> response_size,
     is_authenticated |-> request.user.is_authenticated,
     is_staff |-> IF request.user.is_authenticated
                  THEN request.user.is_staff ELSE FALSE,
     is_superuser |-> IF request.user.is_authenticated
                      THEN request.user.is_superuser ELSE FALSE]

\* _log_request: val is the row written; an exception leaves the table as
\* it was
_log_request(request, response, start_time, request_size, t1, id, dbFails) ==
    LET response_size == _get_response_size(response)
    IN IF response_size.exc # NoExc THEN Raise(response_size.exc)
       ELSE IF ~request.has_user THEN Raise("AttributeError")
       ELSE create(LogKwargs(request, response, start_time, request_size,
                             response_size.val, t1), id, t1, dbFails)

\* process_response that logs whatever _should_log_request answers
process_response_IgnoresDecision(self, request, response, start_time, request_size, t1, id, dbFails) ==
    LET decision == _should_log_request(self, request)
        logged == _log_request(request, response, start_time, request_size,
                               t1, id, dbFails)
    IN IF decision.exc # NoExc
       THEN [exc |-> decision.exc, response |-> None, should_log |-> "raised",
             created |-> None, error |-> None]
       ELSE IF logged.exc # NoExc
       THEN [exc |-> NoExc, response |-> Some(response),
             should_log |-> IF decision.val THEN "yes" ELSE "no",
             created |-> None, error |-> Some(logged.exc)]
       ELSE [exc |-> NoExc, response |-> Some(response),
             should_log |-> IF decision.val THEN "yes" ELSE "no",
             created |-> logged.val, error |-> None]

\* process_response without the try/except around _log_request
process_response_NoTry(self, request, response, start_time, request_size, t1, id, dbFails) ==
    LET decision == _should_log_request(self, request)
        logged == _log_request(request, response, start_time, request_size,
                               t1, id, dbFails)
    IN IF decision.exc # NoExc
       THEN [exc |-> decision.exc, response |-> None, should_log |-> "raised",
             created |-> None, error |-> None]
       ELSE IF ~decision.val
       THEN [exc |-> NoExc, response |-> Some(response), should_log |-> "no",
             created |-> None, error |-> None]
       ELSE IF logged.exc # NoExc
       THEN [exc |-> logged.exc, response |-> None, should_log |-> "yes",
             created |-> None, error |-> Some(logged.exc)]
       ELSE [exc |-> NoExc, response |-> Some(response), should_log |-> "yes",
             created |-> logged.val, error |-> None]

\* process_response: [exc, response, should_log, created, error]; exc is what
\* leaves the middleware, error what went to logger.error
process_response(self, request, response, start_time, request_size, t1, id, dbFails) ==
    LET decision == _should_log_request(self, request)
        logged == _log_request(request, response, start_time, request_size,
                               t1, id, dbFails)
    IN IF decision.exc # NoExc
       THEN [exc |-> decision.exc, response |-> None, should_log |-> "raised",
             created |-> None, error |-> None]
       ELSE IF ~decision.val
       THEN [exc |-> NoExc, response |-> Some(response), should_log |-> "no",
             created |-> None, error |-> None]
       ELSE IF logged.exc # NoExc
       THEN [exc |-> NoExc, response |-> Some(response), should_log |-> "yes",
             created |-> None, error |-> Some(logged.exc)]
       ELSE [exc |-> NoExc, response |-> Some(response), should_log |-> "yes",
             created |-> logged.val, error |-> None]

\* a process_request that leaves no start time on the request
process_request_NoStart(self, request, t0) ==
    LET size == _get_request_size(request)
    IN [exc |-> size.exc, start_time |-> 0, request_size |-> size.val]

\* process_request: the attributes it sets on the request object, _start_time
\* (t0 is the reading of time.time()) and _request_size; nothing is written
\* to self
process_request(self, request, t0) ==
    LET size == _get_request_size(request)
    IN [exc |-> size.exc, start_time |-> t0, request_size |-> size.val]

\* MiddlewareMixin.__call__: process_request, the handler, process_response.
\* handler(request) is the response of get_response; t0 and t1 are the
\* readings of time.time() in process_request and in _log_request.
Call(self, request, handler_response, t0, t1, id, dbFails) ==
    LET size == _get_request_size(request)
    IN IF size.exc # NoExc
       THEN [exc |-> size.exc, response |-> None, should_log |-> "not reached",
             created |-> None, error |-> None, handler_ran |-> FALSE]
       ELSE process_response(self, request, handler_response, t0, size.val,
                             t1, id, dbFails) @@ [handler_ran |-> TRUE]

---------------------------------------------------------------------------
(* The requests, responses and settings the model draws from *)

AnonymousUser ==
    [is_authenticated |-> FALSE, pk |-> None, is_staff |-> FALSE,
     is_superuser |-> FALSE, username |-> <<>>]
Alice ==
    [is_authenticated |-> TRUE, pk |-> Some(1), is_staff |-> FALSE,
     is_superuser |-> FALSE, username |-> <<"a", "l", "i", "c", "e">>]
Root ==
    [is_authenticated |-> TRUE, pk |-> Some(2), is_staff |-> TRUE,
     is_superuser |-> TRUE, username |-> <<"r", "o", "o", "t">>]

Bytes(n) == [kind |-> "bytes", len |-> n, exc |-> NoExc]
NoAttr == [kind |-> "noattr", len |-> 0, exc |-> NoExc]
Raises(e) == [kind |-> "raises", len |-> 0, exc |-> e]

\* n times the character c
Rep(n, c) == [i \in 1..n |-> c]

P_root == <<"/">>
P_cv == <<"/", "c", "v", "/">>
P_static_file == 
    <<"/", "s", "t", "a", "t", "i", "c", "/", "a", ".", "c", "s", "s">>
P_static_noslash == <<"/", "s", "t", "a", "t", "i", "c">>
P_nested_static == <<"/", "x", "/", "s", "t", "a", "t", "i", "c", "/">>
P_media_file == <<"/", "m", "e", "d", "i", "a", "/", "a">>
P_favicon_more == 
    <<"/", "f", "a", "v", "i", "c", "o", "n", ".", "i", "c", "o", "n">>
P_admin == <<"/", "a", "d", "m", "i", "n", "/">>
P_jsi18n == 
    <<"/", "a", "d", "m", "i", "n", "/", "j", "s", "i", "1", "8", "n", "/">>

Q_page == <<"p", "a", "g", "e", "=", "2">>
UA_curl == <<"c", "u", "r", "l", "/", "8">>
IP_local == <<"1", "2", "7", ".", "0", ".", "0", ".", "1">>
XFF_chain == 
    <<"2", "0", "3", ".", "0", ".", "1", "1", "3", ".", "1", "9", "5", ",",
      " ", "7", "0", ".", "4", "1", ".", "3", ".", "1", "8">>
XFF_single == <<"1", "0", ".", "0", ".", "0", ".", "1">>
XFF_padded == 
    <<" ", "1", "0", ".", "0", ".", "0", ".", "1", " ", ",", "1", "0", ".",
      "0", ".", "0", ".", "2">>
XFF_leading_comma == <<",", "1", "0", ".", "0", ".", "0", ".", "2">>

\* what a response carries: its kind, and for the reporting views the number
\* of matching records and the ids of the records returned
Body(kind, total, ids) == [kind |-> kind, total |-> total, ids |-> ids]

Response(status, content, body) ==
    [status_code |-> status, content |-> content, body |-> body]

OkResponse == Response(200, Bytes(13), Body("page", 0, <<>>))

\* GET /cv/ by alice from 127.0.0.1, no body
BaseRequest ==
    [method |-> "GET", path |-> P_cv, QUERY_STRING |-> Some(<<>>),
     HTTP_USER_AGENT |-> None, HTTP_X_FORWARDED_FOR |-> None,
     REMOTE_ADDR |-> Some(IP_local), CONTENT_LENGTH |-> None,
     body |-> Bytes(0), has_user |-> TRUE, user |-> Alice]

\* a request the authentication middleware has not reached
WithoutUser(r) == [r EXCEPT !.has_user = FALSE, !.user = AnonymousUser]

\* the settings of the deployment: the defaults of the middleware, the
\* local-memory cache of the development settings and the PostgreSQL
\* database of the docker set-up
DefaultConfig ==
    [excluded_paths |-> DefaultExcludedPaths,
     excluded_methods |-> DefaultExcludedMethods,
     log_authenticated_only |-> FALSE,
     cache_backend |-> "locmem",
     db_engine |-> "postgresql"]

Epoch == 1000000

\* the cache_page entries: a function from keys to the response stored and
\* when it expires
NoCache == <<>>

NoOutcome ==
    [exc |-> NoExc, response |-> None, should_log |-> "not reached",
     created |-> None, error |-> None, handler_ran |-> FALSE]

NoLast ==
    [op |-> "none", request |-> BaseRequest, handler_response |-> OkResponse,
     t0 |-> 0, t1 |-> 0, dbFails |-> FALSE, out |-> NoOutcome,
     target |-> None]

\* the accounts of the auth_user table, by primary key
UserPks == {1, 2}
InitialUsers == [pk \in UserPks |-> IF pk = 1 THEN Some(Alice) ELSE Some(Root)]

\* handled: the calls of the middleware; decided_yes: those that returned a
\* response after _should_log_request answered True; failed: those of
\* decided_yes whose _log_request raised
NoTally == [handled |-> 0, decided_yes |-> 0, failed |-> 0]

Count(t, out) ==
    [handled |-> t.handled + 1,
     decided_yes |-> t.decided_yes +
         (IF out.exc = NoExc /\ out.should_log = "yes" THEN 1 ELSE 0),
     failed |-> t.failed +
         (IF out.exc = NoExc /\ ~IsNone(out.error) THEN 1 ELSE 0)]

---------------------------------------------------------------------------
(* One request through the middleware around an opaque handler *)

\* the client's request enters RequestLoggingMiddleware.__call__; the handler
\* answers handler_response; elapsed is what the wall clock moved between the
\* two readings (negative when the clock was stepped back); rows is the
\* table as the handler left it, free its next primary key, and target what
\* the handler acted on
ServeOn(rows, free, request, handler_response, cache2, elapsed, dbFails, target) ==
    LET t1 == now + elapsed
        out == Call(config, request, handler_response, now, t1, free,
                    dbFails)
    IN /\ store' = IF IsNone(out.created) THEN rows
                   ELSE Append(rows, Get(out.created))
       /\ nextId' = IF IsNone(out.created) THEN free ELSE free + 1
       /\ now' = t1
       /\ tally' = Count(tally, out)
       /\ last' = [op |-> "request", request |-> request,
                   handler_response |-> handler_response,
                   t0 |-> now, t1 |-> t1, dbFails |-> dbFails, out |-> out,
                   target |-> target]
       /\ cache' = cache2
       /\ UNCHANGED <<config, users, inflight>>

\* the handler writes nothing to the table
Serve(request, handler_response, cache2, elapsed, dbFails) ==
    ServeOn(store, nextId, request, handler_response, cache2, elapsed,
            dbFails, None)

\* the handler is a view that touches no cache
HandleRequest(request, handler_response, elapsed, dbFails) ==
    Serve(request, handler_response, cache, elapsed, dbFails)

---------------------------------------------------------------------------
(* Spec: sequences of requests through one middleware instance *)

MaxRequests == 3

AuthOnlyConfig == [DefaultConfig EXCEPT !.log_authenticated_only = TRUE]

SeqRequests ==
    {BaseRequest,
     [BaseRequest EXCEPT !.method = "OPTIONS"],
     [BaseRequest EXCEPT !.path = P_static_file],
     [BaseRequest EXCEPT !.user = AnonymousUser],
     WithoutUser(BaseRequest),
     [BaseRequest EXCEPT !.body = Raises("UnreadablePostError")]}

Init ==
    /\ config \in {DefaultConfig, AuthOnlyConfig}
    /\ store = <<>>
    /\ nextId = 1
    /\ cache = NoCache
    /\ now = Epoch
    /\ users = InitialUsers
    /\ tally = NoTally
    /\ inflight = <<>>
    /\ last = NoLast

Request ==
    /\ tally.handled < MaxRequests
    /\ \E request \in SeqRequests, dbFails \in BOOLEAN :
          HandleRequest(request, OkResponse, 1500, dbFails)

Next == Request

Spec == Init /\ [][Next]_vars

---------------------------------------------------------------------------
(* SpecFields: one request, of every shape, through a fresh middleware; and *)
(* direct calls of RequestLog.objects.create                                *)

CustomConfig ==
    [excluded_paths |-> {P_cv},
     excluded_methods |-> {"HEAD", "POST"},
     log_authenticated_only |-> FALSE,
     cache_backend |-> "locmem",
     db_engine |-> "postgresql"]

FieldConfigs == {DefaultConfig, AuthOnlyConfig, CustomConfig}

FieldMethods == {"GET", "POST", "OPTIONS", "HEAD", "PROPFIND"}

FieldPaths ==
    {P_root, P_cv, S_static, P_static_file, P_static_noslash,
     P_nested_static, P_media_file, S_favicon, P_favicon_more, P_jsi18n,
     P_admin,
     P_root \o Rep(PathMaxLen - 2, "a"), P_root \o Rep(PathMaxLen - 1, "a"),
     P_root \o Rep(PathMaxLen, "a"), S_static \o Rep(PathMaxLen, "a")}

FieldUsers == {AnonymousUser, Alice, Root}

\* method, path and actor
DecisionRequests ==
    LET with == {[BaseRequest EXCEPT !.method = m, !.path = p, !.user = u] :
                    m \in FieldMethods, p \in FieldPaths, u \in FieldUsers}
    IN with \cup {WithoutUser(r) : r \in {x \in with : x.user = Alice}}

FieldForwardedFor ==
    {None, Some(<<>>), Some(XFF_chain), Some(XFF_single), Some(XFF_padded),
     Some(XFF_leading_comma), Some(<<" ", " ">>)}

\* the two address sources
IpRequests ==
    {[BaseRequest EXCEPT !.HTTP_X_FORWARDED_FOR = x, !.REMOTE_ADDR = a] :
        x \in FieldForwardedFor, a \in {None, Some(IP_local)}}

FieldContentLengths ==
    {None, Some(<<>>), Some(<<"0">>), Some(<<"1", "2">>), Some(<<"-", "5">>),
     Some(<<"a", "b", "c">>), Some(<<" ", "7", " ">>), Some(<<"+", "3">>),
     Some(<<"-">>), Some(<<"1", ".", "5">>)}

FieldBodies ==
    {Bytes(0), Bytes(3), NoAttr, Raises("ValueError"),
     Raises("UnreadablePostError")}

\* the declared and the actual size
SizeRequests ==
    {[BaseRequest EXCEPT !.method = "POST", !.CONTENT_LENGTH = c, !.body = b] :
        c \in FieldContentLengths, b \in FieldBodies}

FieldQueryStrings ==
    {None, Some(<<>>), Some(Q_page), Some(Rep(QueryStringMaxLen - 1, "q")),
     Some(Rep(QueryStringMaxLen, "q")), Some(Rep(QueryStringMaxLen + 1, "q"))}

FieldUserAgents ==
    {None, Some(<<>>), Some(UA_curl), Some(Rep(UserAgentMaxLen - 1, "u")),
     Some(Rep(UserAgentMaxLen, "u")), Some(Rep(UserAgentMaxLen + 1, "u"))}

\* the two free-text headers
TextRequests ==
    {[BaseRequest EXCEPT !.QUERY_STRING = q, !.HTTP_USER_AGENT = ua] :
        q \in FieldQueryStrings, ua \in FieldUserAgents}

FieldRequests ==
    DecisionRequests \cup IpRequests \cup SizeRequests \cup TextRequests

\* a rendered page, an empty 404, a streaming response (no content), a
\* template response not rendered yet, a content property that raises
FieldResponses ==
    {OkResponse,
     Response(404, Bytes(0), Body("page", 0, <<>>)),
     Response(200, NoAttr, Body("stream", 0, <<>>)),
     Response(500, Raises("ContentNotRenderedError"), Body("page", 0, <<>>)),
     Response(200, Raises("ValueError"), Body("page", 0, <<>>))}

\* what the wall clock moved between the two readings, in microseconds
FieldElapsed == {0, 999, 1000, 1500, 2999, 0 - 400, 0 - 1000, 0 - 5000}

\* keyword arguments of a direct RequestLog.objects.create call
DirectKwargs ==
    {[LogKwargs(BaseRequest, OkResponse, Epoch, None, None, Epoch)
        EXCEPT !.http_method = m, !.path = p, !.response_time_ms = rt] :
        m \in {"GET", "FOO", ""},
        p \in {P_cv, <<>>},
        rt \in {None, Some(150), Some(0 - 1)}}

InitFields ==
    /\ config \in FieldConfigs
    /\ store = <<>>
    /\ nextId = 1
    /\ cache = NoCache
    /\ now = Epoch
    /\ users = InitialUsers
    /\ tally = NoTally
    /\ inflight = <<>>
    /\ last = NoLast

\* the first request after start-up
FieldRequest ==
    /\ tally.handled = 0
    /\ store = <<>>
    /\ \E dbFails \in BOOLEAN :
          \/ \E request \in FieldRequests :
                HandleRequest(request, OkResponse, 1500, dbFails)
          \/ \E response \in FieldResponses, elapsed \in FieldElapsed :
                HandleRequest(BaseRequest, response, elapsed, dbFails)

\* RequestLog.objects.create(**kwargs) called directly, as the tests and the
\* sample-data loaders do
DirectCreate ==
    /\ tally.handled = 0
    /\ store = <<>>
    /\ \E kwargs \in DirectKwargs, dbFails \in BOOLEAN :
          LET made == create(kwargs, nextId, now, dbFails)
          IN /\ store' = IF made.exc = NoExc
                         THEN Append(store, Get(made.val)) ELSE store
             /\ nextId' = IF made.exc = NoExc THEN nextId + 1 ELSE nextId
             /\ last' = [NoLast EXCEPT
                            !.op = "create", !.dbFails = dbFails,
                            !.out = [NoOutcome EXCEPT
                                        !.exc = made.exc,
                                        !.created = made.val]]
             /\ UNCHANGED <<config, cache, now, users, inflight, tally>>

NextFields == FieldRequest \/ DirectCreate

SpecFields == InitFields /\ [][NextFields]_vars

---------------------------------------------------------------------------
(* The reporting views (src/audit/views.py) behind the middleware *)

U_logs_api == <<"/", "a", "u", "d", "i", "t", "/", "a", "p", "i", "/", "l", "o", "g", "s", "/">>
U_logs_stats == 
    <<"/", "a", "u", "d", "i", "t", "/", "a", "p", "i", "/", "s", "t", "a",
      "t", "s", "/">>
U_recent_requests == <<"/", "a", "u", "d", "i", "t", "/", "l", "o", "g", "s", "/">>

ViewPath(view) ==
    CASE view = "logs_api" -> U_logs_api
      [] view = "logs_stats" -> U_logs_stats
      [] view = "recent_requests" -> U_recent_requests

ApiDefaultLimit == 10
ListingPageSize == 20
LogsApiCacheSeconds == 300
LogsStatsCacheSeconds == 600

Micro(seconds) == seconds * 1000000

\* sorted, newest first, with row put behind every row that is not older
InsertByNewest(sorted, row) ==
    LET k == Cardinality({j \in 1..Len(sorted) :
                             sorted[j].timestamp >= row.timestamp})
    IN SubSeq(sorted, 1, k) \o <<row>> \o SubSeq(sorted, k + 1, Len(sorted))

\* the first n of rows, newest first, equal timestamps in scan order
RECURSIVE NewestFirst(_, _)
NewestFirst(rows, n) ==
    IF n = 0 THEN <<>>
    ELSE InsertByNewest(NewestFirst(rows, n - 1), rows[n])

\* no ordering: the rows as the scan delivers them
OrderAsScanned(rows) == rows

\* queryset.order_by('-timestamp') on rows in scan order
OrderByNewest(rows) == NewestFirst(rows, Len(rows))

Ids(rows) == [i \in 1..Len(rows) |-> rows[i].id]

\* the length of the serialized payload
ContentLength(body) ==
    CASE body.kind = "error" -> 36
      [] body.kind = "logs" -> 64 + 512 * Len(body.ids)
      [] body.kind = "stats" -> 256
      [] body.kind = "listing" -> 4096 + 512 * Len(body.ids)
      [] OTHER -> 0

Rendered(status, body) == Response(status, Bytes(ContentLength(body)), body)

AuthenticationRequired == Rendered(401, Body("error", 0, <<>>))
MethodNotAllowed == Rendered(405, Body("not_allowed", 0, <<>>))
RedirectToLogin == Rendered(302, Body("redirect_to_login", 0, <<>>))

\* what Django answers when the view raises exc
ServerError(exc) ==
    Rendered(500, Body("server_error", 0, <<>>) @@ [exc |-> exc])

NotFound == Rendered(404, Body("not_found", 0, <<>>))

\* the index of the first c of s at or after i, or Len(s) + 1
RECURSIVE Find(_, _, _)
Find(s, i, c) ==
    IF i > Len(s) THEN Len(s) + 1
    ELSE IF s[i] = c THEN i
    ELSE Find(s, i + 1, c)

\* s.split(c)
RECURSIVE Split(_, _)
Split(s, c) ==
    LET k == Find(s, 1, c)
    IN IF k > Len(s) THEN <<s>>
       ELSE <<SubSeq(s, 1, k - 1)>> \o Split(SubSeq(s, k + 1, Len(s)), c)

\* QueryDict(query_string): parse_qsl with keep_blank_values, for a query
\* string without percent-escapes and "+"
parse_qsl(query) ==
    LET Pair(piece, k) ==
            [name |-> SubSeq(piece, 1, k - 1),
             value |-> IF k >= Len(piece) THEN <<>>
                       ELSE SubSeq(piece, k + 1, Len(piece))]
        Pairs[pieces \in Seq(Seq(STRING))] ==
            IF pieces = <<>> THEN <<>>
            ELSE IF Head(pieces) = <<>> THEN Pairs[Tail(pieces)]
            ELSE <<Pair(Head(pieces), Find(Head(pieces), 1, "="))>> \o
                 Pairs[Tail(pieces)]
    IN Pairs[Split(query, "&")]

\* request.GET: the QueryDict of the request's query string
QueryDict(request) == parse_qsl(GetOrEmpty(request.QUERY_STRING))

\* GET.get(key): the last value given for key, or None
GET_get(GET, key) ==
    LET hits == SelectSeq(GET, LAMBDA pair : pair.name = key)
    IN IF hits = <<>> THEN None ELSE Some(hits[Len(hits)].value)

\* the truth value of an optional string: neither None nor ''
Truthy(o) == ~IsNone(o) /\ Get(o) # <<>>

K_search == <<"s", "e", "a", "r", "c", "h">>
K_method == <<"m", "e", "t", "h", "o", "d">>
K_status == <<"s", "t", "a", "t", "u", "s">>
K_auth == <<"a", "u", "t", "h">>
K_limit == <<"l", "i", "m", "i", "t">>
K_offset == <<"o", "f", "f", "s", "e", "t">>
K_page == <<"p", "a", "g", "e">>
V_authenticated == 
    <<"a", "u", "t", "h", "e", "n", "t", "i", "c", "a", "t", "e", "d">>
V_anonymous == <<"a", "n", "o", "n", "y", "m", "o", "u", "s">>
V_last == <<"l", "a", "s", "t">>

UpperCase ==
    <<"A", "B", "C", "D", "E", "F", "G", "H", "I", "J", "K", "L", "M", "N",
      "O", "P", "Q", "R", "S", "T", "U", "V", "W", "X", "Y", "Z">>
LowerCase ==
    <<"a", "b", "c", "d", "e", "f", "g", "h", "i", "j", "k", "l", "m", "n",
      "o", "p", "q", "r", "s", "t", "u", "v", "w", "x", "y", "z">>

Lower(c) ==
    IF \E i \in 1..26 : UpperCase[i] = c
    THEN LowerCase[CHOOSE i \in 1..26 : UpperCase[i] = c]
    ELSE c

\* column__icontains=term: LIKE '%term%' without regard to the case of
\* ASCII letters, the wildcards of term escaped
icontains(text, term) ==
    \E i \in 0..(Len(text) - Len(term)) :
        \A k \in 1..Len(term) : Lower(text[i + k]) = Lower(term[k])

\* the characters of a stored http_method
MethodText(m) ==
    CASE m = "GET" -> <<"G", "E", "T">>
      [] m = "POST" -> <<"P", "O", "S", "T">>
      [] m = "PUT" -> <<"P", "U", "T">>
      [] m = "PATCH" -> <<"P", "A", "T", "C", "H">>
      [] m = "DELETE" -> <<"D", "E", "L", "E", "T", "E">>
      [] m = "HEAD" -> <<"H", "E", "A", "D">>
      [] m = "OPTIONS" -> <<"O", "P", "T", "I", "O", "N", "S">>
      [] m = "TRACE" -> <<"T", "R", "A", "C", "E">>
      [] m = "PROPFIND" -> <<"P", "R", "O", "P", "F", "I", "N", "D">>
      [] m = "FOO" -> <<"F", "O", "O">>
      [] m = "" -> <<>>

\* a slice that takes the row at stop as well
QuerySetSlice_Inclusive(rows, start, stop) ==
    IF start < 0 \/ stop < 0 THEN Raise("ValueError")
    ELSE IF start > stop \/ start >= Len(rows) THEN Ret(<<>>)
    ELSE Ret(SubSeq(rows, start + 1, Min(stop + 1, Len(rows))))

\* queryset[start:stop]: a negative bound raises ("Negative indexing is not
\* supported."); otherwise the rows start .. stop-1, none when start >= stop
QuerySetSlice(rows, start, stop) ==
    IF start < 0 \/ stop < 0 THEN Raise("ValueError")
    ELSE IF start >= stop \/ start >= Len(rows) THEN Ret(<<>>)
    ELSE Ret(SubSeq(rows, start + 1, Min(stop, Len(rows))))

\* the value an exact lookup on an IntegerField compares with:
\* get_prep_value is int(value), and its ValueError leaves filter()
IntegerLookup(value) == int(value)

ApiMaxLimit == 100

\* queryset.filter(Q(path__icontains) | Q(http_method__icontains) |
\* Q(remote_ip__icontains)) when a search is given: the search of the logs API
filter_search_api(rows, search_query) ==
    IF ~Truthy(search_query) THEN rows
    ELSE SelectSeq(rows, LAMBDA row :
             \/ icontains(row.path, Get(search_query))
             \/ icontains(MethodText(row.http_method), Get(search_query))
             \/ /\ ~IsNone(row.remote_ip)
                /\ icontains(Get(row.remote_ip), Get(search_query)))

\* the search of the listing: the same three columns and user__username,
\* accounts being the auth_user table joined
filter_search(rows, search_query, accounts) ==
    IF ~Truthy(search_query) THEN rows
    ELSE SelectSeq(rows, LAMBDA row :
             \/ icontains(row.path, Get(search_query))
             \/ icontains(MethodText(row.http_method), Get(search_query))
             \/ /\ ~IsNone(row.remote_ip)
                /\ icontains(Get(row.remote_ip), Get(search_query))
             \/ /\ ~IsNone(row.user)
                /\ ~IsNone(accounts[Get(row.user)])
                /\ icontains(Get(accounts[Get(row.user)]).username,
                             Get(search_query)))

\* queryset.filter(http_method=method_filter) when a method is given
filter_method(rows, method_filter) ==
    IF ~Truthy(method_filter) THEN rows
    ELSE SelectSeq(rows, LAMBDA row :
             MethodText(row.http_method) = Get(method_filter))

\* queryset.filter(response_status=status_filter) when a status is given,
\* status being the integer the lookup compares with
filter_status(rows, status_filter, status) ==
    IF ~Truthy(status_filter) THEN rows
    ELSE SelectSeq(rows, LAMBDA row : row.response_status = Some(status))

\* queryset.filter(is_authenticated=...) for auth=authenticated or anonymous
filter_auth(rows, auth_filter) ==
    IF auth_filter = Some(V_authenticated)
    THEN SelectSeq(rows, LAMBDA row : row.is_authenticated)
    ELSE IF auth_filter = Some(V_anonymous)
    THEN SelectSeq(rows, LAMBDA row : ~row.is_authenticated)
    ELSE rows

\* the JsonResponse of logs_api_view for the filtered queryset
logs_api_page(queryset, limit, offset, logs) ==
    IF logs.exc # NoExc THEN ServerError(logs.exc)
    ELSE Rendered(200,
             Body("logs", Len(queryset), Ids(logs.val)) @@
                 [limit |-> limit, offset |-> offset,
                  has_more |-> Len(queryset) > offset + limit])

\* queryset[offset:offset + limit] and the response
logs_api_slice(queryset, limit, offset) ==
    logs_api_page(queryset, limit, offset,
                  QuerySetSlice(queryset, offset, offset + limit))

\* logs_api_view, inside its decorators
logs_api_view(request, rows) ==
    IF ~request.user.is_authenticated
    THEN AuthenticationRequired
    ELSE
    LET GET == QueryDict(request)
        limit_param == GET_get(GET, K_limit)
        offset_param == GET_get(GET, K_offset)
        limit_int == IF IsNone(limit_param) THEN Ret(ApiDefaultLimit)
                     ELSE int(Get(limit_param))
        offset_int == IF IsNone(offset_param) THEN Ret(0)
                      ELSE int(Get(offset_param))
        status_filter == GET_get(GET, K_status)
        status_int == IntegerLookup(Get(status_filter))
    IN IF limit_int.exc # NoExc THEN ServerError(limit_int.exc)
       ELSE IF offset_int.exc # NoExc THEN ServerError(offset_int.exc)
       ELSE IF Truthy(status_filter) /\ status_int.exc # NoExc
       THEN ServerError(status_int.exc)
       ELSE logs_api_slice(
                filter_status(
                    filter_method(
                        filter_search_api(OrderByNewest(rows),
                                          GET_get(GET, K_search)),
                        GET_get(GET, K_method)),
                    status_filter, status_int.val),
                Min(limit_int.val, ApiMaxLimit), offset_int.val)

---------------------------------------------------------------------------
(* Python floats: the IEEE-754 doubles of "/", "*" and "+"                  *)

\* the bits of a double's significand
MantissaBits == 53

\* how many bits of a quotient the long division writes out before it
\* rounds: enough for every denominator below 2^10
QuotientBits == 64

Zeros(n) == [i \in 1..n |-> 0]

Front(s) == SubSeq(s, 1, Len(s) - 1)

\* the n low bits of the natural number v, most significant first
RECURSIVE ToBits(_, _)
ToBits(v, n) == IF n = 0 THEN <<>> ELSE ToBits(v \div 2, n - 1) \o <<v % 2>>

RECURSIVE StripZeros(_)
StripZeros(bits) ==
    IF bits # <<>> /\ Head(bits) = 0 THEN StripZeros(Tail(bits)) ELSE bits

\* bits + 1, in the same number of bits; all ones wrap to all zeros
RECURSIVE Increment(_)
Increment(bits) ==
    IF bits = <<>> THEN <<>>
    ELSE IF bits[Len(bits)] = 0 THEN Front(bits) \o <<1>>
    ELSE Increment(Front(bits)) \o <<0>>

\* a + b + carry for two numbers of the same number of bits, in that many
\* bits (carry is never negative; comparing it makes it a value at every
\* step instead of an expression that grows with the length)
RECURSIVE AddBits(_, _, _)
AddBits(a, b, carry) ==
    IF a = <<>> \/ carry < 0 THEN <<>>
    ELSE AddBits(Front(a), Front(b), (a[Len(a)] + b[Len(b)] + carry) \div 2)
             \o <<(a[Len(a)] + b[Len(b)] + carry) % 2>>

\* bits * c + carry for a small natural number c, seven bits longer (carry
\* is compared for the same reason)
RECURSIVE MulSmall(_, _, _)
MulSmall(bits, c, carry) ==
    IF bits = <<>> \/ carry < 0 THEN ToBits(carry, 7)
    ELSE MulSmall(Front(bits), c, (bits[Len(bits)] * c + carry) \div 2)
             \o <<(bits[Len(bits)] * c + carry) % 2>>

\* the bits of floor(r * 2^n / den) after the first, for 0 <= r < den,
\* followed by one more bit that says whether the division left a remainder
RECURSIVE DivBits(_, _, _)
DivBits(r, den, n) ==
    IF n = 0 THEN <<IF r = 0 THEN 0 ELSE 1>>
    ELSE <<IF 2 * r >= den THEN 1 ELSE 0>>
             \o DivBits(IF 2 * r >= den THEN 2 * r - den ELSE 2 * r, den,
                        n - 1)

\* a double: m * 2^e with m of MantissaBits bits, the first of them 1; zero
\* has no bits
FloatZero == [type |-> "float", m |-> <<>>, e |-> 0]

\* the int 0 of "if total > 0 else 0"
IntZero == [type |-> "int", m |-> <<>>, e |-> 0]

\* the first MantissaBits bits of sig (which starts with a 1) rounded to
\* nearest, ties to even, by the bits that follow
RoundedUp(sig) ==
    /\ sig[MantissaBits + 1] = 1
    /\ \/ sig[MantissaBits] = 1
       \/ \E i \in (MantissaBits + 2)..Len(sig) : sig[i] = 1

\* a mantissa that was all ones rounds up to a power of two
Carried(sig) ==
    RoundedUp(sig) /\ \A i \in 1..MantissaBits : sig[i] = 1

RoundSignificand(sig, e) ==
    IF Len(sig) <= MantissaBits
    THEN [type |-> "float", m |-> sig \o Zeros(MantissaBits - Len(sig)),
          e |-> e - (MantissaBits - Len(sig))]
    ELSE IF Carried(sig)
    THEN [type |-> "float", m |-> <<1>> \o Zeros(MantissaBits - 1),
          e |-> e + (Len(sig) - MantissaBits) + 1]
    ELSE IF RoundedUp(sig)
    THEN [type |-> "float", m |-> Increment(SubSeq(sig, 1, MantissaBits)),
          e |-> e + (Len(sig) - MantissaBits)]
    ELSE [type |-> "float", m |-> SubSeq(sig, 1, MantissaBits),
          e |-> e + (Len(sig) - MantissaBits)]

\* the double nearest to bits * 2^e
Rounded(bits, e) ==
    IF StripZeros(bits) = <<>> THEN FloatZero
    ELSE RoundSignificand(StripZeros(bits),
                          e)

\* float(n) for a natural number below 128
float(n) == Rounded(ToBits(n, 7), 0)

\* a / b for natural numbers a <= b, 0 < b
truediv(a, b) ==
    Rounded(<<IF a >= b THEN 1 ELSE 0>>
                \o DivBits(IF a >= b THEN a - b ELSE a, b, QuotientBits),
            0 - (QuotientBits + 1))

\* x * c for a double x and an int 0 < c < 128
float_mul(x, c) ==
    IF x.m = <<>> THEN FloatZero ELSE Rounded(MulSmall(x.m, c, 0), x.e)

\* x + y for doubles x, y >= 0 with x.e >= y.e
float_add_aligned(x, y) ==
    Rounded(AddBits(<<0>> \o x.m \o Zeros(x.e - y.e),
                    Zeros(1 + x.e - y.e) \o y.m, 0),
            y.e)

\* x + y for doubles x, y >= 0
float_add(x, y) ==
    IF x.m = <<>> THEN [y EXCEPT !.type = "float"]
    ELSE IF y.m = <<>> THEN [x EXCEPT !.type = "float"]
    ELSE IF x.e >= y.e THEN float_add_aligned(x, y)
    ELSE float_add_aligned(y, x)

\* the first place where the bit strings a and b of one length differ has a
\* 1 in a
RECURSIVE BitsGreater(_, _)
BitsGreater(a, b) ==
    IF a = <<>> THEN FALSE
    ELSE IF Head(a) # Head(b) THEN Head(a) > Head(b)
    ELSE BitsGreater(Tail(a), Tail(b))

\* x > y for numbers x, y >= 0
float_gt(x, y) ==
    IF x.m = <<>> THEN FALSE
    ELSE IF y.m = <<>> THEN TRUE
    ELSE IF x.e # y.e THEN x.e > y.e
    ELSE BitsGreater(x.m, y.m)

---------------------------------------------------------------------------
(* RequestLogQuerySet and RequestLogManager: the aggregates                *)
(* (src/audit/managers.py)                                                 *)

\* RequestLog.is_successful, is_client_error and is_server_error (models.py):
\* "self.response_status and lo <= self.response_status < hi"
is_successful(row) ==
    /\ ~IsNone(row.response_status)
    /\ Get(row.response_status) # 0
    /\ 200 <= Get(row.response_status) /\ Get(row.response_status) < 300

is_client_error(row) ==
    /\ ~IsNone(row.response_status)
    /\ Get(row.response_status) # 0
    /\ 400 <= Get(row.response_status) /\ Get(row.response_status) < 500

is_server_error(row) ==
    /\ ~IsNone(row.response_status)
    /\ Get(row.response_status) # 0
    /\ 500 <= Get(row.response_status) /\ Get(row.response_status) < 600

\* filter(response_status__gte=lo, response_status__lt=hi): a NULL status
\* satisfies no comparison
status_between(rows, lo, hi) ==
    SelectSeq(rows, LAMBDA row :
        /\ ~IsNone(row.response_status)
        /\ Get(row.response_status) >= lo
        /\ Get(row.response_status) < hi)

successful(rows) == status_between(rows, 200, 300)

\* client_errors with the redirects counted in
client_errors_From300(rows) == status_between(rows, 300, 500)

client_errors(rows) == status_between(rows, 400, 500)

server_errors(rows) == status_between(rows, 500, 600)

\* "(part / total * 100) if total > 0 else 0"
percentage(part, total) ==
    IF total > 0 THEN float_mul(truediv(part, total), 100) ELSE IntZero

get_stats(rows) ==
    [total_requests |-> Len(rows),
     successful_requests |-> Len(successful(rows)),
     client_errors |-> Len(client_errors(rows)),
     server_errors |-> Len(server_errors(rows)),
     success_rate |-> percentage(Len(successful(rows)), Len(rows)),
     error_rate |-> percentage(Len(client_errors(rows))
                                   + Len(server_errors(rows)), Len(rows))]

\* the values of a column in the order the scan first meets them
RECURSIVE DistinctValues(_, _)
DistinctValues(rows, field) ==
    IF rows = <<>> THEN <<>>
    ELSE <<rows[1][field]>>
             \o DistinctValues(SelectSeq(Tail(rows), LAMBDA row :
                                   row[field] # rows[1][field]), field)

\* one group per value of keys, with the number of rows that have it
count_groups(rows, field, keys) ==
    [i \in 1..Len(keys) |->
        (field :> keys[i]) @@
        ("count" :> Len(SelectSeq(rows, LAMBDA row : row[field] = keys[i])))]

\* values(field).annotate(count=Count('id')): the groups as the database
\* forms them while it scans
values_count(rows, field) ==
    count_groups(rows, field, DistinctValues(rows, field))

\* the groups of count c, then those of the counts below it
RECURSIVE FromCountDown(_, _)
FromCountDown(groups, c) ==
    IF c = 0 THEN <<>>
    ELSE SelectSeq(groups, LAMBDA g : g.count = c)
             \o FromCountDown(groups, c - 1)

\* the groups of count c, then those of the counts above it
RECURSIVE FromCountUp(_, _, _)
FromCountUp(groups, c, most) ==
    IF c > most THEN <<>>
    ELSE SelectSeq(groups, LAMBDA g : g.count = c)
             \o FromCountUp(groups, c + 1, most)

\* order_by('count')
order_by_count_Ascending(groups, most) == FromCountUp(groups, 1, most)

\* order_by('-count'): no group has more than most rows; groups of one
\* count stay in the order the database formed them
order_by_count(groups, most) == FromCountDown(groups, most)

\* get_top_paths(limit): [exc, val]; the slice raises for a negative limit
get_top_paths(rows, limit) ==
    QuerySetSlice(order_by_count(values_count(rows, "path"), Len(rows)),
                  0, limit)

get_top_ips(rows, limit) ==
    QuerySetSlice(order_by_count(values_count(rows, "remote_ip"), Len(rows)),
                  0, limit)

\* filter(user__isnull=False) joined with auth_user: the username of the
\* account of each row that has one (the e-mail address goes with the
\* account and is left out)
user_values(rows, accounts) ==
    [i \in 1..Len(SelectSeq(rows, LAMBDA row : ~IsNone(row.user))) |->
        [user__username |->
            Get(accounts[Get(SelectSeq(rows, LAMBDA row :
                                 ~IsNone(row.user))[i].user)]).username]]

get_top_users(rows, accounts, limit) ==
    QuerySetSlice(order_by_count(values_count(user_values(rows, accounts),
                                              "user__username"),
                                 Len(rows)),
                  0, limit)

get_method_distribution(rows) ==
    order_by_count(values_count(rows, "http_method"), Len(rows))

\* the hour of day at which the clock of the model reads 0
TimeZeroHour == 10

\* EXTRACT(hour FROM timestamp), timestamp in microseconds
ExtractHour(timestamp) ==
    ((timestamp \div 60000000) \div 60 + TimeZeroHour) % 24

DigitChar(d) == CHOOSE c \in Digits : DigitVal(c) = d

\* str(n) for an int 0 <= n < 100
str(n) ==
    IF n < 10 THEN <<DigitChar(n)>>
    ELSE <<DigitChar(n \div 10), DigitChar(n % 10)>>

\* GROUP BY hour ORDER BY hour: the rows of the cursor from hour h on, each
\* as {'hour': str(int(row[0])), 'count': row[1]}
RECURSIVE HourRows(_, _)
HourRows(rows, h) ==
    IF h > 23 THEN <<>>
    ELSE (IF \E i \in 1..Len(rows) : ExtractHour(rows[i].timestamp) = h
          THEN <<[hour |-> str(h),
                  count |-> Len(SelectSeq(rows, LAMBDA row :
                                    ExtractHour(row.timestamp) = h))]>>
          ELSE <<>>)
         \o HourRows(rows, h + 1)

\* get_hourly_distribution: [exc, val]. The statement is raw SQL; SQLite has
\* no EXTRACT and refuses it when it is prepared, whatever the table holds
get_hourly_distribution(self, rows) ==
    IF self.db_engine = "sqlite3" THEN Raise("OperationalError")
    ELSE Ret(HourRows(rows, 0))

\* the dictionary logs_stats_view serializes
stats_data(rows, hourly) ==
    get_stats(rows) @@
    [top_paths |-> get_top_paths(rows, 10).val,
     top_ips |-> get_top_ips(rows, 10).val,
     method_distribution |-> get_method_distribution(rows),
     hourly_distribution |-> hourly]

\* the body of logs_stats_view; rows is the table in the order the database
\* scans it
logs_stats_view(self, request, rows) ==
    IF ~request.user.is_authenticated
    THEN AuthenticationRequired
    ELSE IF get_hourly_distribution(self, rows).exc # NoExc
    THEN ServerError(get_hourly_distribution(self, rows).exc)
    ELSE Rendered(200, Body("stats", get_stats(rows).total_requests, <<>>)
                       @@ [data |-> stats_data(rows,
                               get_hourly_distribution(self, rows).val)])

---------------------------------------------------------------------------
(* The views, continued *)

\* RecentRequestsView.get_queryset: [exc, val]; accounts is the auth_user
\* table joined for user__username
get_queryset(request, rows, accounts) ==
    LET GET == QueryDict(request)
        status_filter == GET_get(GET, K_status)
        status_int == IntegerLookup(Get(status_filter))
    IN IF Truthy(status_filter) /\ status_int.exc # NoExc
       THEN Raise(status_int.exc)
       ELSE Ret(OrderByNewest(
                filter_auth(
                    filter_status(
                        filter_method(
                            filter_search(rows, GET_get(GET, K_search),
                                          accounts),
                            GET_get(GET, K_method)),
                        status_filter, status_int.val),
                    GET_get(GET, K_auth))))

\* the page of a paginator of num_pages pages that ?page= asks for:
\* [exc, val]; 1 when there is none, the last one for "last"
page_number(page, num_pages) ==
    IF ~Truthy(page) THEN Ret(1)
    ELSE IF int(Get(page)).exc = NoExc THEN int(Get(page))
    ELSE IF Get(page) = V_last THEN Ret(num_pages)
    ELSE Raise("Http404")

\* a paginator whose pages say only whether a page follows
paginator_page_HasNextOnly(queryset, number, num_pages) ==
    IF number.exc # NoExc
    THEN [exc |-> "Http404", val |-> <<>>, number |-> 0,
          has_other_pages |-> FALSE]
    ELSE IF number.val < 1 \/ number.val > num_pages
    THEN [exc |-> "Http404", val |-> <<>>, number |-> number.val,
          has_other_pages |-> FALSE]
    ELSE [exc |-> NoExc,
          val |-> SubSeq(queryset,
                         (number.val - 1) * ListingPageSize + 1,
                         Min(number.val * ListingPageSize, Len(queryset))),
          number |-> number.val,
          has_other_pages |-> number.val < num_pages]

\* Paginator.page(number) and Page.has_other_pages: [exc, val, number,
\* has_other_pages]
paginator_page(queryset, number, num_pages) ==
    IF number.exc # NoExc
    THEN [exc |-> "Http404", val |-> <<>>, number |-> 0,
          has_other_pages |-> FALSE]
    ELSE IF number.val < 1 \/ number.val > num_pages
    THEN [exc |-> "Http404", val |-> <<>>, number |-> number.val,
          has_other_pages |-> FALSE]
    ELSE [exc |-> NoExc,
          val |-> SubSeq(queryset,
                         (number.val - 1) * ListingPageSize + 1,
                         Min(number.val * ListingPageSize, Len(queryset))),
          number |-> number.val,
          has_other_pages |-> number.val > 1 \/ number.val < num_pages]

\* Paginator.num_pages with allow_empty_first_page
num_pages(count) ==
    IF count = 0 THEN 1
    ELSE (count + ListingPageSize - 1) \div ListingPageSize

\* MultipleObjectMixin.paginate_queryset with paginate_by = 20: [exc, val,
\* number, has_other_pages]
paginate_queryset(request, queryset) ==
    paginator_page(queryset,
                   page_number(GET_get(QueryDict(request), K_page),
                               num_pages(Len(queryset))),
                   num_pages(Len(queryset)))

\* ListView.get: the 500 of an exception that left get_queryset, the 404 of
\* the paginator, or the page rendered
render_listing(queryset, page) ==
    IF queryset.exc # NoExc THEN ServerError(queryset.exc)
    ELSE IF page.exc # NoExc THEN NotFound
    ELSE Rendered(200,
             Body("listing", Len(queryset.val), Ids(page.val)) @@
                 [page |-> page.number,
                  is_paginated |-> page.has_other_pages])

\* ListView.get on the queryset of get_queryset
list_view_get(request, queryset) ==
    render_listing(queryset, paginate_queryset(request, queryset.val))

\* RecentRequestsView: LoginRequiredMixin.dispatch, then ListView.get
RecentRequestsView(request, rows, accounts) ==
    IF ~request.user.is_authenticated
    THEN RedirectToLogin
    ELSE IF request.method # "GET"
    THEN MethodNotAllowed
    ELSE list_view_get(request, get_queryset(request, rows, accounts))

\* the key of a cached page: the URL with its query string
CacheKey(url, request) == <<url, GetOrEmpty(request.QUERY_STRING)>>

\* the entry of url that cache_page would answer request with at time t
Fresh(entries, url, request, t) ==
    LET key == CacheKey(url, request)
    IN IF key \in DOMAIN entries /\ entries[key].expires > t
       THEN Some(entries[key].response)
       ELSE None

\* @require_http_methods(["GET"]) @cache_page(timeout) around view_response:
\* [response, cache]. The cache key is made of the URL with its query string
\* and the method alone (the response has no Vary header when it is
\* stored); a hit answers without calling the view; a miss calls it and
\* stores a 200 response, on a backend that stores at all.
cache_page(self, url, timeout, request, view_response, entries, t) ==
    IF request.method # "GET"
    THEN [response |-> MethodNotAllowed, cache |-> entries]
    ELSE IF ~IsNone(Fresh(entries, url, request, t))
    THEN [response |-> Get(Fresh(entries, url, request, t)),
          cache |-> entries]
    ELSE IF view_response.status_code = 200 /\ self.cache_backend = "locmem"
    THEN [response |-> view_response,
          cache |-> (CacheKey(url, request) :>
                        [response |-> view_response,
                         expires |-> t + Micro(timeout)]) @@ entries]
    ELSE [response |-> view_response, cache |-> entries]

\* the URL resolver: the decorated view of each path
Dispatch(self, view, request, rows, accounts, entries, t) ==
    CASE view = "logs_api" ->
            cache_page(self, "logs_api", LogsApiCacheSeconds, request,
                       logs_api_view(request, rows), entries, t)
      [] view = "logs_stats" ->
            cache_page(self, "logs_stats", LogsStatsCacheSeconds, request,
                       logs_stats_view(self, request, rows), entries, t)
      [] view = "recent_requests" ->
            [response |-> RecentRequestsView(request, rows, accounts),
             cache |-> entries]

\* a request for one of the three views with a query string, through the
\* middleware; rows is the table in the order the database scans it
QueryRequest(view, method, user, query, rows, elapsed) ==
    LET request == [BaseRequest EXCEPT !.path = ViewPath(view),
                                       !.method = method, !.user = user,
                                       !.QUERY_STRING = Some(query)]
        answer == Dispatch(config, view, request, rows, users, cache, now)
    IN Serve(request, answer.response, answer.cache, elapsed, FALSE)

\* a request for one of the three views without a query string
ViewRequest(view, method, user, elapsed) ==
    QueryRequest(view, method, user, <<>>, store, elapsed)

---------------------------------------------------------------------------
(* SpecViews: callers of the reporting views, on either cache backend *)

MaxViewRequests == 3

DummyCacheConfig == [DefaultConfig EXCEPT !.cache_backend = "dummy"]

ViewUsers == {AnonymousUser, Alice}

\* a moment, and a little more than five minutes
ViewElapsed == {1500, Micro(LogsApiCacheSeconds) + 1500}

InitViews ==
    /\ config \in {DefaultConfig, DummyCacheConfig}
    /\ store = <<>>
    /\ nextId = 1
    /\ cache = NoCache
    /\ now = Epoch
    /\ users = InitialUsers
    /\ tally = NoTally
    /\ inflight = <<>>
    /\ last = NoLast

LogsApi ==
    /\ tally.handled < MaxViewRequests
    /\ \E method \in {"GET", "POST"}, user \in ViewUsers,
          elapsed \in ViewElapsed :
          ViewRequest("logs_api", method, user, elapsed)

LogsStats ==
    /\ tally.handled < MaxViewRequests
    /\ \E user \in ViewUsers, elapsed \in ViewElapsed :
          ViewRequest("logs_stats", "GET", user, elapsed)

RecentRequests ==
    /\ tally.handled < MaxViewRequests
    /\ \E user \in ViewUsers, elapsed \in ViewElapsed :
          ViewRequest("recent_requests", "GET", user, elapsed)

NextViews == LogsApi \/ LogsStats \/ RecentRequests

SpecViews == InitViews /\ [][NextViews]_vars

---------------------------------------------------------------------------
(* SpecQuery: one query of the listing or of the logs API on a table that *)
(* holds records already                                                  *)

\* the rows the tables are made of: GET /cv/ by alice from 127.0.0.1
\* answered 200, and POST /admin/ by nobody from no address answered 404
RowShapes ==
    {LogKwargs(BaseRequest, OkResponse, Epoch, None, Some(13), Epoch),
     LogKwargs([BaseRequest EXCEPT !.method = "POST", !.path = P_admin,
                                   !.user = AnonymousUser,
                                   !.REMOTE_ADDR = None],
               Response(404, Bytes(9), Body("page", 0, <<>>)),
               Epoch, None, Some(9), Epoch)}

\* when row i of n was written: a millisecond after the one before, at the
\* same moment as the others, or (the clock set back) a millisecond before
RowStamp(pattern, n, i) ==
    CASE pattern = "forward" -> Epoch - 1000 * (n + 1 - i)
      [] pattern = "same" -> Epoch - 1000
      [] pattern = "backward" -> Epoch - 1000 * i

MaxRows == 2

\* a table of n rows with primary keys 1..n in insertion order
TablesOf(n) ==
    {[i \in 1..n |->
         [id |-> i, timestamp |-> RowStamp(pattern, n, i)] @@ shape[i]] :
        shape \in [1..n -> RowShapes],
        pattern \in {"forward", "same", "backward"}}

\* a table with one row more than the logs API ever returns, every second
\* one a POST, a millisecond apart
LongTable ==
    [i \in 1..(ApiMaxLimit + 1) |->
        [id |-> i, timestamp |-> Epoch - 1000 * (ApiMaxLimit + 2 - i)] @@
        (IF i % 2 = 0
         THEN CHOOSE shape \in RowShapes : shape.http_method = "POST"
         ELSE CHOOSE shape \in RowShapes : shape.user = Some(1))]

QueryTables == UNION {TablesOf(n) : n \in 0..MaxRows} \cup {LongTable}

\* name=value, or nothing when the parameter is not given
Param(name, value) == IF IsNone(value) THEN <<>> ELSE name \o <<"=">> \o Get(value)

\* the query string of the parameters given, in order
RECURSIVE Join(_)
Join(params) ==
    IF params = <<>> THEN <<>>
    ELSE IF Head(params) = <<>> THEN Join(Tail(params))
    ELSE IF Join(Tail(params)) = <<>> THEN Head(params)
    ELSE Head(params) \o <<"&">> \o Join(Tail(params))

\* no search; a term found in the username alice only, one found in the
\* method POST only, one found in the path /cv/ only
SearchValues ==
    {None, Some(<<"a", "L">>), Some(<<"o", "S", "t">>), Some(<<"/", "C">>)}
MethodValues == {None, Some(<<"G", "E", "T">>)}
StatusValues == {None, Some(<<"2", "0", "0">>), Some(<<"a", "b", "c">>)}
AuthValues == {None, Some(V_authenticated), Some(V_anonymous)}
PageValues == {None, Some(<<"2">>), Some(<<"3">>)}
LimitValues ==
    {None, Some(<<"1">>), Some(<<"0">>), Some(<<"-", "1">>),
     Some(<<"a", "b", "c">>), Some(<<"1", "0", "0", "0">>)}
OffsetValues == {None, Some(<<"1">>), Some(<<"-", "1">>), Some(<<"x">>)}

ListingQueries ==
    {Join(<<Param(K_search, search), Param(K_method, method),
            Param(K_status, status), Param(K_auth, auth),
            Param(K_page, page)>>) :
        search \in SearchValues, method \in MethodValues,
        status \in StatusValues, auth \in AuthValues, page \in PageValues}

\* the parameters of the logs API, and auth, which the listing has
ApiQueries ==
    {Join(<<Param(K_search, search), Param(K_method, method),
            Param(K_status, status), Param(K_limit, limit),
            Param(K_offset, offset)>>) :
        search \in SearchValues, method \in MethodValues,
        status \in StatusValues, limit \in LimitValues,
        offset \in OffsetValues}
    \cup {Param(K_auth, auth) : auth \in AuthValues}

Reverse(rows) == [i \in 1..Len(rows) |-> rows[Len(rows) + 1 - i]]

\* the orders in which the database may hand over rows of equal timestamp
ScanOrders(rows) ==
    IF \E i, j \in 1..Len(rows) :
           i # j /\ rows[i].timestamp = rows[j].timestamp
    THEN {rows, Reverse(rows)}
    ELSE {rows}

InitQuery ==
    /\ config = DefaultConfig
    /\ store \in QueryTables
    /\ nextId = Len(store) + 1
    /\ cache = NoCache
    /\ now = Epoch
    /\ users = InitialUsers
    /\ tally = NoTally
    /\ inflight = <<>>
    /\ last = NoLast

\* GET /audit/logs/?... by alice
ListingQuery ==
    /\ tally.handled = 0
    /\ \E query \in ListingQueries, rows \in ScanOrders(store) :
          QueryRequest("recent_requests", "GET", Alice, query, rows, 1500)

\* GET /audit/api/logs/?... by alice
ApiQuery ==
    /\ tally.handled = 0
    /\ \E query \in ApiQueries, rows \in ScanOrders(store) :
          QueryRequest("logs_api", "GET", Alice, query, rows, 1500)

NextQuery == ListingQuery \/ ApiQuery

SpecQuery == InitQuery /\ [][NextQuery]_vars

---------------------------------------------------------------------------
(* Accounts and the admin of the log (src/audit/models.py, admin.py) *)

P_admin_requestlog == 
    <<"/", "a", "d", "m", "i", "n", "/", "a", "u", "d", "i", "t", "/", "r",
      "e", "q", "u", "e", "s", "t", "l", "o", "g", "/">>

\* a foreign key that clears the three captured flags along with the
\* reference
SET_NULL_ClearsFlags(rows, pk) ==
    [i \in 1..Len(rows) |->
        IF rows[i].user = Some(pk)
        THEN [rows[i] EXCEPT !.user = None, !.is_authenticated = FALSE,
                             !.is_staff = FALSE, !.is_superuser = FALSE]
        ELSE rows[i]]

\* on_delete=models.CASCADE: the rows of the account go with it
CASCADE(rows, pk) ==
    SelectSeq(rows, LAMBDA row : row.user # Some(pk))

\* user = ForeignKey(User, on_delete=models.SET_NULL, null=True): the table
\* after the account pk is deleted
SET_NULL(rows, pk) ==
    [i \in 1..Len(rows) |->
        IF rows[i].user = Some(pk) THEN [rows[i] EXCEPT !.user = None]
        ELSE rows[i]]

\* RequestLogAdmin.has_add_permission
has_add_permission(request) == FALSE

\* RequestLogAdmin.has_change_permission
has_change_permission(request) == FALSE

\* a delete permission granted to every staff account
has_delete_permission_Staff(request) == request.user.is_staff

\* RequestLogAdmin.has_delete_permission
has_delete_permission(request) == request.user.is_superuser

\* the instance a form without editable fields saves: every field of
\* RequestLogAdmin is in readonly_fields
BlankKwargs ==
    [http_method |-> "", path |-> <<>>, query_string |-> None,
     remote_ip |-> None, user_agent |-> None, user |-> None,
     response_status |-> None, response_time_ms |-> None,
     request_size_bytes |-> None, response_size_bytes |-> None,
     is_authenticated |-> FALSE, is_staff |-> FALSE, is_superuser |-> FALSE]

PermissionDenied == Rendered(403, Body("forbidden", 0, <<>>))
RedirectToChangelist == Rendered(302, Body("redirect_to_changelist", 0, <<>>))

WithoutId(rows, id) == SelectSeq(rows, LAMBDA row : row.id # id)

\* a POST to the admin of RequestLog: [response, rows, free]. The admin site
\* lets only staff accounts in; add_view, change_view and delete_view ask the
\* three permission methods; delete_selected is offered only with the delete
\* permission and then deletes every selected record (here: all of them).
RequestLogAdmin(request, op, id, rows, free, t) ==
    IF ~(request.user.is_authenticated /\ request.user.is_staff)
    THEN [response |-> RedirectToLogin, rows |-> rows, free |-> free]
    ELSE CASE op = "add" ->
                IF ~has_add_permission(request)
                THEN [response |-> PermissionDenied, rows |-> rows,
                      free |-> free]
                ELSE [response |-> RedirectToChangelist,
                      rows |-> Append(rows,
                          Get(create(BlankKwargs, free, t, FALSE).val)),
                      free |-> free + 1]
           [] op = "change" ->
                IF ~has_change_permission(request)
                THEN [response |-> PermissionDenied, rows |-> rows,
                      free |-> free]
                ELSE [response |-> RedirectToChangelist, rows |-> rows,
                      free |-> free]
           [] op = "delete" ->
                IF ~has_delete_permission(request)
                THEN [response |-> PermissionDenied, rows |-> rows,
                      free |-> free]
                ELSE [response |-> RedirectToChangelist,
                      rows |-> WithoutId(rows, id), free |-> free]
           [] op = "delete_selected" ->
                IF ~has_delete_permission(request)
                THEN [response |-> RedirectToChangelist, rows |-> rows,
                      free |-> free]
                ELSE [response |-> RedirectToChangelist, rows |-> <<>>,
                      free |-> free]

---------------------------------------------------------------------------
(* SpecUsers: requests, account changes and admin operations interleaved *)

MaxUserRequests == 2

AdminOps == {"add", "change", "delete", "delete_selected"}

\* who can be behind a request: nobody, or an account that exists
Requesters(accounts) ==
    {AnonymousUser} \cup
        {Get(accounts[pk]) : pk \in {k \in UserPks : ~IsNone(accounts[k])}}

InitUsers ==
    /\ config = DefaultConfig
    /\ store = <<>>
    /\ nextId = 1
    /\ cache = NoCache
    /\ now = Epoch
    /\ users = InitialUsers
    /\ tally = NoTally
    /\ inflight = <<>>
    /\ last = NoLast

\* a request for a page of the site
AccountRequest ==
    /\ tally.handled < MaxUserRequests
    /\ \E who \in Requesters(users) :
          HandleRequest([BaseRequest EXCEPT !.user = who], OkResponse, 1500,
                        FALSE)

\* the changes of status tried: alice is made staff, alice is made a plain
\* account again, root loses the superuser status
FlagChanges ==
    {[pk |-> 1, is_staff |-> TRUE, is_superuser |-> FALSE],
     [pk |-> 1, is_staff |-> FALSE, is_superuser |-> FALSE],
     [pk |-> 2, is_staff |-> TRUE, is_superuser |-> FALSE]}

\* User.save() after is_staff or is_superuser was changed
SetFlags ==
    \E change \in FlagChanges :
        /\ ~IsNone(users[change.pk])
        /\ <<change.is_staff, change.is_superuser>> #
               <<Get(users[change.pk]).is_staff,
                 Get(users[change.pk]).is_superuser>>
        /\ users' = [users EXCEPT ![change.pk] =
                        Some([Get(@) EXCEPT
                                 !.is_staff = change.is_staff,
                                 !.is_superuser = change.is_superuser])]
        /\ UNCHANGED <<config, store, nextId, cache, now, inflight, tally,
                       last>>

\* User.delete(): the collector applies on_delete to the rows that refer to
\* the account, then deletes the account
DeleteUserOf(pk) ==
    /\ ~IsNone(users[pk])
    /\ store' = SET_NULL(store, pk)
    /\ users' = [users EXCEPT ![pk] = None]
    /\ UNCHANGED <<config, nextId, cache, now, inflight, tally, last>>

DeleteUser == \E pk \in UserPks : DeleteUserOf(pk)

\* a GET of the listing, the logs API or the statistics API
ReportRequest ==
    /\ tally.handled < MaxUserRequests
    /\ \E who \in Requesters(users),
          view \in {"recent_requests", "logs_api", "logs_stats"} :
          ViewRequest(view, "GET", who, 1500)

\* a POST to the admin of RequestLog, through the middleware
AdminRequest ==
    /\ tally.handled < MaxUserRequests
    /\ \E who \in Requesters(users), op \in AdminOps,
          id \in 1..(nextId - 1) :
          LET request == [BaseRequest EXCEPT !.method = "POST",
                                             !.path = P_admin_requestlog,
                                             !.user = who]
              done == RequestLogAdmin(request, op, id, store, nextId, now)
          IN ServeOn(done.rows, done.free, request, done.response, cache,
                     1500, FALSE, Some([op |-> op, id |-> id]))

NextUsers ==
    AccountRequest \/ ReportRequest \/ SetFlags \/ DeleteUser \/ AdminRequest

SpecUsers == InitUsers /\ [][NextUsers]_vars

---------------------------------------------------------------------------
(* SpecConcurrent: requests in flight at once through one middleware       *)
(* instance, on the threads of the server; a step is process_request, the  *)
(* handler, or process_response with its INSERT                            *)

MaxInFlight == 2

\* what the wall clock moves during a step, in microseconds
StepMicros == 700

\* alice's GET, an anonymous POST of 12 bytes from elsewhere, a preflight
ConcurrentRequests ==
    {BaseRequest,
     [BaseRequest EXCEPT !.method = "POST", !.path = P_admin,
                         !.user = AnonymousUser, !.REMOTE_ADDR = None,
                         !.HTTP_X_FORWARDED_FOR = Some(XFF_single),
                         !.CONTENT_LENGTH = Some(<<"1", "2">>)],
     [BaseRequest EXCEPT !.method = "OPTIONS", !.user = Root]}

ConcurrentResponses ==
    {OkResponse, Response(404, Bytes(9), Body("page", 0, <<>>))}

InitConcurrent ==
    /\ config \in {DefaultConfig, AuthOnlyConfig}
    /\ store = <<>>
    /\ nextId = 1
    /\ cache = NoCache
    /\ now = Epoch
    /\ users = InitialUsers
    /\ tally = NoTally
    /\ inflight = <<>>
    /\ last = NoLast

\* a request enters __call__ on its own thread: process_request
Arrive ==
    /\ Len(inflight) < MaxInFlight
    /\ \E request \in ConcurrentRequests :
          LET attrs == process_request(config, request, now)
          IN inflight' = Append(inflight,
                 [request |-> request,
                  pc |-> IF attrs.exc = NoExc THEN "handler" ELSE "raised",
                  start_time |-> attrs.start_time,
                  request_size |-> attrs.request_size,
                  response |-> OkResponse, log_time |-> 0,
                  out |-> NoOutcome])
    /\ now' = now + StepMicros
    /\ UNCHANGED <<config, store, nextId, cache, users, tally, last>>

\* get_response(request) returns on the thread of request i
Handle ==
    \E i \in 1..Len(inflight), response \in ConcurrentResponses :
        /\ inflight[i].pc = "handler"
        /\ inflight' = [inflight EXCEPT ![i].pc = "response",
                                        ![i].response = response]
        /\ now' = now + StepMicros
        /\ UNCHANGED <<config, store, nextId, cache, users, tally, last>>

\* process_response on the thread of request i: the decision, and the
\* INSERT, which the database serialises
Finish ==
    \E i \in 1..Len(inflight) :
        /\ inflight[i].pc = "response"
        /\ LET frame == inflight[i]
               out == process_response(config, frame.request, frame.response,
                                       frame.start_time, frame.request_size,
                                       now, nextId, FALSE)
           IN /\ store' = IF IsNone(out.created) THEN store
                          ELSE Append(store, Get(out.created))
              /\ nextId' = IF IsNone(out.created) THEN nextId ELSE nextId + 1
              /\ inflight' = [inflight EXCEPT
                                 ![i].pc = "done", ![i].log_time = now,
                                 ![i].out = out @@ [handler_ran |-> TRUE]]
              /\ tally' = Count(tally, out)
        /\ now' = now + StepMicros
        /\ UNCHANGED <<config, cache, users, last>>

NextConcurrent == Arrive \/ Handle \/ Finish

SpecConcurrent == InitConcurrent /\ [][NextConcurrent]_vars

---------------------------------------------------------------------------
(* SpecStats: the aggregates of the manager, called directly and through   *)
(* logs_stats_view, on a table that holds records already                  *)

MaxStatsRequests == 1
MaxOk == 2
MaxOther == 2

\* the settings of the test runs: SQLite in memory and the dummy cache
TestingConfig ==
    [DefaultConfig EXCEPT !.cache_backend = "dummy", !.db_engine = "sqlite3"]

\* how many records of a table were answered 2xx, 4xx, 5xx and otherwise
OkCounts == 0..MaxOk
ClientCounts == {0, 1, 4}
ServerCounts == {0, 1, 5}
OtherCounts == 0..MaxOther

\* the status of the i-th record of its class, the ends of the ranges
\* among them
OkStatus(i) == Some(IF i % 2 = 1 THEN 200 ELSE 299)
ClientStatus(i) == Some(IF i = 1 THEN 404 ELSE IF i % 2 = 0 THEN 400 ELSE 499)
ServerStatus(i) == Some(IF i = 1 THEN 500 ELSE IF i % 2 = 0 THEN 599 ELSE 501)
OtherStatus(i) ==
    CASE i % 4 = 1 -> None
      [] i % 4 = 2 -> Some(302)
      [] i % 4 = 3 -> Some(600)
      [] OTHER -> Some(199)

StatusList(ok, client, server, other) ==
    [i \in 1..ok |-> OkStatus(i)] \o [i \in 1..client |-> ClientStatus(i)]
        \o [i \in 1..server |-> ServerStatus(i)]
        \o [i \in 1..other |-> OtherStatus(i)]

StatsLayouts == {"distinct", "mixed"}

\* the request behind record i: in the layout "distinct" every record has
\* a path of its own, in "mixed" the records share three paths, two
\* addresses or none, three methods and two accounts or none
StatsRequestOf(layout, i) ==
    IF layout = "distinct"
    THEN [BaseRequest EXCEPT !.path = <<"/", "p", "/">> \o str(i)]
    ELSE [BaseRequest EXCEPT
             !.path = <<"/", "p", "/">> \o str(Min(i, 3)),
             !.method = <<"GET", "POST", "GET", "PUT">>[(i % 4) + 1],
             !.user = <<AnonymousUser, Alice, Root>>[(i % 3) + 1],
             !.REMOTE_ADDR =
                 IF i % 2 = 0 THEN None
                 ELSE Some(<<"1", "0", ".", "0", ".", "0", ".">>
                               \o str(i % 3))]

\* when record i was written: in "mixed" the odd ones in the hour before
\* the clock of the model reads 0
StatsStamp(layout, i) ==
    IF layout = "mixed" /\ i % 2 = 1 THEN 0 - 1000 * i ELSE 1000 * i

StatsRow(layout, i, status) ==
    [id |-> i, timestamp |-> StatsStamp(layout, i)] @@
    [LogKwargs(StatsRequestOf(layout, i), OkResponse, Epoch, None, Some(13),
               Epoch)
        EXCEPT !.response_status = status]

StatsTableOf(layout, statuses) ==
    [i \in 1..Len(statuses) |-> StatsRow(layout, i, statuses[i])]

StatsTables ==
    {StatsTableOf(layout, StatusList(ok, client, server, other)) :
        layout \in StatsLayouts, ok \in OkCounts, client \in ClientCounts,
        server \in ServerCounts, other \in OtherCounts}

\* the limits the callers pass; 10 is the default
TopLimits == {0, 1, 2, 10, 0 - 1}

\* the orders in which the database may form the groups
GroupOrders(rows) == {rows, Reverse(rows)}

InitStats ==
    /\ config \in {DefaultConfig, TestingConfig}
    /\ store \in StatsTables
    /\ nextId = Len(store) + 1
    /\ cache = NoCache
    /\ now = Epoch
    /\ users = InitialUsers
    /\ tally = NoTally
    /\ inflight = <<>>
    /\ last = NoLast

\* a call of a method of RequestLog.objects outside a request: what it was
\* called with and what it returned. The call reads only, so one call is
\* followed from every table and a second one would find what the first did
ManagerCall(name, args, result) ==
    /\ last.op \in {"none", "request"}
    /\ last' = [NoLast EXCEPT !.op = name, !.target = args, !.out = result]
    /\ UNCHANGED <<config, store, nextId, cache, now, users, inflight, tally>>

GetStats == ManagerCall("get_stats", <<>>, get_stats(store))

GetTopPaths ==
    \E limit \in TopLimits, rows \in GroupOrders(store) :
        ManagerCall("get_top_paths", <<limit>>, get_top_paths(rows, limit))

GetTopIps ==
    \E limit \in TopLimits, rows \in GroupOrders(store) :
        ManagerCall("get_top_ips", <<limit>>, get_top_ips(rows, limit))

GetTopUsers ==
    \E limit \in TopLimits, rows \in GroupOrders(store) :
        ManagerCall("get_top_users", <<limit>>,
                    get_top_users(rows, users, limit))

GetMethodDistribution ==
    \E rows \in GroupOrders(store) :
        ManagerCall("get_method_distribution", <<>>,
                    Ret(get_method_distribution(rows)))

GetHourlyDistribution ==
    ManagerCall("get_hourly_distribution", <<>>,
                get_hourly_distribution(config, store))

\* GET /audit/api/stats/ through the middleware
StatsRequest ==
    /\ tally.handled < MaxStatsRequests
    /\ last.op \in {"none", "request"}
    /\ \E user \in ViewUsers, rows \in GroupOrders(store) :
          QueryRequest("logs_stats", "GET", user, <<>>, rows, 1500)

NextStats ==
    \/ GetStats
    \/ GetTopPaths
    \/ GetTopIps
    \/ GetTopUsers
    \/ GetMethodDistribution
    \/ GetHourlyDistribution
    \/ StatsRequest

SpecStats == InitStats /\ [][NextStats]_vars

---------------------------------------------------------------------------
(* SpecAsync: sequences of requests through RequestLoggingMiddlewareAsync  *)

\* _log_request called from the coroutine __call__: the thread has a running
\* event loop, so the database call of RequestLog.objects.create is refused
\* with SynchronousOnlyOperation before it reaches the table, unless the
\* process runs with DJANGO_ALLOW_ASYNC_UNSAFE
_log_request_in_coroutine(request, response, start_time, request_size, t1, id, dbFails, allow_async_unsafe) ==
    IF _log_request(request, response, start_time, request_size, t1, id,
                    dbFails).exc # NoExc
    THEN _log_request(request, response, start_time, request_size, t1, id,
                      dbFails)
    ELSE IF ~allow_async_unsafe THEN Raise("SynchronousOnlyOperation")
    ELSE _log_request(request, response, start_time, request_size, t1, id,
                      dbFails)

\* what follows "response = await self.get_response(request)"
async_after_await(self, request, response, start_time, request_size, t1, id, dbFails, allow_async_unsafe) ==
    IF _should_log_request(self, request).exc # NoExc
    THEN [exc |-> _should_log_request(self, request).exc, response |-> None,
          should_log |-> "raised", created |-> None, error |-> None]
    ELSE IF ~_should_log_request(self, request).val
    THEN [exc |-> NoExc, response |-> Some(response), should_log |-> "no",
          created |-> None, error |-> None]
    ELSE IF _log_request_in_coroutine(request, response, start_time,
                request_size, t1, id, dbFails, allow_async_unsafe).exc # NoExc
    THEN [exc |-> NoExc, response |-> Some(response), should_log |-> "yes",
          created |-> None,
          error |-> Some(_log_request_in_coroutine(request, response,
                start_time, request_size, t1, id, dbFails,
                allow_async_unsafe).exc)]
    ELSE [exc |-> NoExc, response |-> Some(response), should_log |-> "yes",
          created |-> _log_request_in_coroutine(request, response,
                start_time, request_size, t1, id, dbFails,
                allow_async_unsafe).val,
          error |-> None]

\* RequestLoggingMiddlewareAsync.__call__
AsyncCall(self, request, handler_response, t0, t1, id, dbFails, allow_async_unsafe) ==
    IF _get_request_size(request).exc # NoExc
    THEN [exc |-> _get_request_size(request).exc, response |-> None,
          should_log |-> "not reached", created |-> None, error |-> None,
          handler_ran |-> FALSE]
    ELSE async_after_await(self, request, handler_response, t0,
                           _get_request_size(request).val, t1, id, dbFails,
                           allow_async_unsafe) @@ [handler_ran |-> TRUE]

\* one request through the coroutine; the handler answers handler_response
AsyncServe(request, handler_response, elapsed, dbFails, allow_async_unsafe) ==
    /\ store' =
          IF IsNone(AsyncCall(config, request, handler_response, now,
                              now + elapsed, nextId, dbFails,
                              allow_async_unsafe).created)
          THEN store
          ELSE Append(store, Get(AsyncCall(config, request, handler_response,
                              now, now + elapsed, nextId, dbFails,
                              allow_async_unsafe).created))
    /\ nextId' = nextId + Len(store') - Len(store)
    /\ now' = now + elapsed
    /\ tally' = Count(tally, AsyncCall(config, request, handler_response,
                                        now, now + elapsed, nextId, dbFails,
                                        allow_async_unsafe))
    /\ last' = [op |-> "async", request |-> request,
                handler_response |-> handler_response,
                t0 |-> now, t1 |-> now + elapsed, dbFails |-> dbFails,
                out |-> AsyncCall(config, request, handler_response, now,
                                  now + elapsed, nextId, dbFails,
                                  allow_async_unsafe),
                target |-> None]
    /\ UNCHANGED <<config, cache, users, inflight>>

AsyncRequest ==
    /\ tally.handled < MaxRequests
    /\ \E request \in SeqRequests, dbFails \in BOOLEAN,
           allow_async_unsafe \in BOOLEAN :
          AsyncServe(request, OkResponse, 1500, dbFails, allow_async_unsafe)

NextAsync == AsyncRequest

SpecAsync == Init /\ [][NextAsync]_vars

---------------------------------------------------------------------------
(* The decision rule as the specification words it *)

\* a request without a resolved actor counts as anonymous
IsAnonymous(request) == ~request.has_user \/ ~request.user.is_authenticated

MatchesExclusionRule(self, request) ==
    \/ self.log_authenticated_only /\ IsAnonymous(request)
    \/ request.method \in self.excluded_methods
    \/ \E p \in self.excluded_paths :
          /\ Len(request.path) >= Len(p)
          /\ \A i \in 1..Len(p) : request.path[i] = p[i]

\* the last operation was a request that got its response back
Completed == last.op = "request" /\ last.out.exc = NoExc

\* the last request reached RequestLog.objects.create, which raised
CreateRaised ==
    /\ last.op = "request"
    /\ last.out.should_log = "yes"
    /\ last.out.error \in {Some("DatabaseError"), Some("IntegrityError")}

---------------------------------------------------------------------------
(* C1 *)

\* C1 as stated: every completed request that matches no exclusion rule has
\* appended one RequestLog, every one that matches a rule none, and the number
\* of records equals the number of completed non-excluded requests.
C1_AsStated ==
    /\ Completed =>
          (~MatchesExclusionRule(config, last.request)
              <=> ~IsNone(last.out.created))
    /\ Len(store) = tally.decided_yes

\* C1 amended: a completed request that matches an exclusion rule appends
\* nothing; one that matches no rule appends exactly one record, the last of
\* the table when its response is returned, unless its logging failed, and
\* then it appends nothing; the number of records is the number of completed
\* non-excluded requests less those whose logging failed.
C1_OnePerLoggedRequest ==
    /\ Completed =>
          /\ MatchesExclusionRule(config, last.request)
                => IsNone(last.out.created)
          /\ ~IsNone(last.out.error) => IsNone(last.out.created)
          /\ ~MatchesExclusionRule(config, last.request)
                /\ IsNone(last.out.error)
                => /\ ~IsNone(last.out.created)
                   /\ store # <<>>
                   /\ store[Len(store)] = Get(last.out.created)
    /\ Len(store) = tally.decided_yes - tally.failed
    /\ \A i, j \in 1..Len(store) : store[i].id = store[j].id => i = j

\* C1 witness: three requests completed, one excluded, one whose INSERT was
\* refused, one logged
C1_Witness ==
    /\ Completed
    /\ tally.handled = 3
    /\ tally.decided_yes = 2
    /\ tally.failed = 1
    /\ Len(store) = 1
    /\ ~IsNone(last.out.created)

---------------------------------------------------------------------------
(* C2 *)

\* C2: when RequestLog.objects.create raises while a request is handled, the
\* middleware raises nothing, returns the handler's response unchanged and
\* leaves the table as it was.
C2_CreateFailureIsSwallowed ==
    [][CreateRaised' =>
          /\ last'.out.exc = NoExc
          /\ last'.out.response = Some(last'.handler_response)
          /\ IsNone(last'.out.created)
          /\ store' = store]_vars

\* C2 witness: the INSERT of a non-excluded request was refused
C2_Witness ==
    /\ CreateRaised
    /\ last.dbFails
    /\ last.out.error = Some("DatabaseError")

---------------------------------------------------------------------------
(* C3 *)

\* C3 as stated: no failure while extracting a field leaves the middleware:
\* the handler runs and its response is returned, whatever the request.
C3_AsStated ==
    last.op = "request" =>
        /\ last.out.exc = NoExc
        /\ last.out.handler_ran
        /\ last.out.response = Some(last.handler_response)

---------------------------------------------------------------------------
(* C4 *)

\* the last request reached the decision and _should_log_request answered
Decided == last.op = "request" /\ last.out.should_log \in {"yes", "no"}

\* path starts with prefix, character by character
HasPrefix(path, prefix) ==
    /\ Len(path) >= Len(prefix)
    /\ \A i \in 1..Len(prefix) : path[i] = prefix[i]

\* C4: a request is logged exactly when none of the three rules skips it
\* (authenticated-only and anonymous, excluded method, excluded path
\* prefix); under the default configuration, exactly when its method is not
\* OPTIONS and its path starts with none of /admin/jsi18n/, /static/,
\* /media/, /favicon.ico.
C4_DecisionRule ==
    Decided =>
        /\ last.out.should_log = "yes"
              <=> ~MatchesExclusionRule(config, last.request)
        /\ config = DefaultConfig =>
              (last.out.should_log = "yes" <=>
                  /\ last.request.method # "OPTIONS"
                  /\ ~HasPrefix(last.request.path, S_admin_jsi18n)
                  /\ ~HasPrefix(last.request.path, S_static)
                  /\ ~HasPrefix(last.request.path, S_media)
                  /\ ~HasPrefix(last.request.path, S_favicon))

\* C4 witness: GET /static/a.css under the default configuration is skipped
C4_Witness ==
    /\ Decided
    /\ config = DefaultConfig
    /\ last.request.method = "GET"
    /\ last.request.path = P_static_file
    /\ last.out.should_log = "no"

---------------------------------------------------------------------------
(* C6 *)

\* the last request was logged: its row is in the table
Logged ==
    /\ last.op = "request"
    /\ ~IsNone(last.out.created)
    /\ store # <<>>
    /\ store[Len(store)] = Get(last.out.created)

LoggedRow == store[Len(store)]

\* tok is the first comma-separated token of header, surrounding whitespace
\* removed: header is lead \o tok \o trail, then a comma or the end, with
\* lead and trail whitespace and tok neither starting nor ending with it
IsFirstToken(header, tok) ==
    \E lead \in 0..Len(header) :
      \E stop \in (lead + Len(tok))..Len(header) :
        /\ \A i \in 1..lead : header[i] \in Whitespace
        /\ \A i \in 1..Len(tok) : header[lead + i] = tok[i]
        /\ \A i \in (lead + Len(tok) + 1)..stop : header[i] \in Whitespace
        /\ \A i \in 1..stop : header[i] # ","
        /\ stop = Len(header) \/ header[stop + 1] = ","
        /\ tok # <<>> =>
              tok[1] \notin Whitespace /\ tok[Len(tok)] \notin Whitespace

IP_client == 
    <<"2", "0", "3", ".", "0", ".", "1", "1", "3", ".", "1", "9", "5">>

---------------------------------------------------------------------------
(* C7 *)

\* C7 as stated: request_size_bytes is the declared Content-Length when it
\* parses as a non-negative integer, otherwise the body length when the body
\* is available, otherwise absent; and never negative.
C7_AsStated ==
    Logged =>
        LET declared == last.request.CONTENT_LENGTH
            parsed == IF IsNone(declared) THEN Raise("absent")
                      ELSE int(Get(declared))
            body == last.request.body
            size == LoggedRow.request_size_bytes
        IN /\ size = IF parsed.exc = NoExc /\ parsed.val >= 0
                     THEN Some(parsed.val)
                     ELSE IF body.kind = "bytes" THEN Some(body.len)
                     ELSE None
           /\ ~IsNone(size) => Get(size) >= 0

---------------------------------------------------------------------------
(* C8 *)

\* nothing but the clock stands between the last request and its row
OnlyClockMatters ==
    /\ last.op = "request"
    /\ last.out.should_log = "yes"
    /\ ~last.dbFails
    /\ last.request.has_user
    /\ last.handler_response.content.kind = "bytes"
    /\ last.request.CONTENT_LENGTH = None

\* C8 as stated: every logged request has a response_time_ms that is present,
\* >= 0 and the elapsed time between the two readings rounded down to whole
\* milliseconds, whatever the two readings are.
C8_AsStated ==
    OnlyClockMatters =>
        /\ Logged
        /\ LoggedRow.response_time_ms = Some((last.t1 - last.t0) \div 1000)
        /\ Get(LoggedRow.response_time_ms) >= 0

---------------------------------------------------------------------------
(* C9 *)

\* stored is the first limit characters of value
IsPrefixOf(stored, value, limit) ==
    /\ Len(stored) = IF Len(value) <= limit THEN Len(value) ELSE limit
    /\ \A i \in 1..Len(stored) : stored[i] = value[i]

\* stored is null for an absent or empty value, else its first limit
\* characters
IsPrefixOrNull(stored, value, limit) ==
    IF IsNone(value) \/ Get(value) = <<>>
    THEN IsNone(stored)
    ELSE ~IsNone(stored) /\ IsPrefixOf(Get(stored), Get(value), limit)

\* C9: every row written by the interceptor has a path of 1 to 500
\* characters, the first 500 of the request path; a query_string of at most
\* 1000 and a user_agent of at most 500 characters, each a prefix of the
\* request's value, and null (not empty) when the request's value is empty.
C9_Truncation ==
    Logged =>
        /\ Len(LoggedRow.path) \in 1..500
        /\ IsPrefixOf(LoggedRow.path, last.request.path, 500)
        /\ IsPrefixOrNull(LoggedRow.query_string, last.request.QUERY_STRING,
                          1000)
        /\ IsPrefixOrNull(LoggedRow.user_agent, last.request.HTTP_USER_AGENT,
                          500)
        /\ LoggedRow.query_string # Some(<<>>)
        /\ LoggedRow.user_agent # Some(<<>>)

\* C9 witness: a 1001-character query string stored as its first 1000
\* characters
C9_Witness ==
    /\ Logged
    /\ ~IsNone(last.request.QUERY_STRING)
    /\ Len(Get(last.request.QUERY_STRING)) = 1001
    /\ ~IsNone(LoggedRow.query_string)
    /\ Len(Get(LoggedRow.query_string)) = 1000
    /\ IsNone(LoggedRow.user_agent)

---------------------------------------------------------------------------
(* C10 *)

\* C10 as stated: every stored RequestLog has an http_method of the eight
\* choices and a non-empty path, whether the interceptor or a direct create
\* wrote it.
C10_AsStated ==
    \A i \in 1..Len(store) :
        /\ store[i].http_method \in HTTP_METHOD_CHOICES
        /\ store[i].path # <<>>

---------------------------------------------------------------------------
(* C5 *)

\* the last request asked for view and came from a caller who is not logged
\* in
Unauthenticated(view) ==
    /\ last.op = "request"
    /\ last.request.path = ViewPath(view)
    /\ ~last.request.user.is_authenticated
    /\ last.out.exc = NoExc

\* C5 as stated: an unauthenticated GET of the logs API or the statistics API
\* is answered 401 and never with records or statistics, whatever was
\* requested before; an unauthenticated request for the listing is
\* redirected to the login page.
C5_AsStated ==
    /\ \A view \in {"logs_api", "logs_stats"} :
          Unauthenticated(view) /\ last.request.method = "GET" =>
              /\ Get(last.out.response).status_code = 401
              /\ Get(last.out.response).body.kind = "error"
    /\ Unauthenticated("recent_requests") =>
          Get(last.out.response) = RedirectToLogin

---------------------------------------------------------------------------
(* C11, C12, C13 *)

SameFlags(a, b) ==
    /\ a.is_authenticated = b.is_authenticated
    /\ a.is_staff = b.is_staff
    /\ a.is_superuser = b.is_superuser

\* the account pk is deleted in this step
Deleted(pk) == ~IsNone(users[pk]) /\ IsNone(users'[pk])

\* C11: the is_authenticated, is_staff and is_superuser fields of a record
\* are those of the actor when the response is processed, all three false
\* for an anonymous actor, and no later step (a change of the account's
\* status, the deletion of the account, any request) changes them in a
\* record that stays in the table.
C11_FlagsFrozen ==
    /\ [](Logged =>
            LET actor == last.request.user
            IN IF actor.is_authenticated
               THEN SameFlags(LoggedRow, actor)
               ELSE /\ ~LoggedRow.is_authenticated
                    /\ ~LoggedRow.is_staff
                    /\ ~LoggedRow.is_superuser)
    /\ [][\A i \in 1..Len(store), j \in 1..Len(store') :
            store[i].id = store'[j].id => SameFlags(store[i], store'[j])]_vars

\* a record of alice taken while she was a plain account, alice being staff
\* now; and a record that says is_authenticated of an account that is gone
C11_Witness ==
    /\ \E i \in 1..Len(store) :
          /\ store[i].user = Some(1)
          /\ ~store[i].is_staff
          /\ ~IsNone(users[1])
          /\ Get(users[1]).is_staff
    /\ \E i \in 1..Len(store) :
          /\ store[i].is_superuser
          /\ store[i].user = None
          /\ IsNone(users[2])

\* C12: deleting an account sets the user reference of every record that
\* referred to it to null, removes no record and changes no other field;
\* records of other accounts keep their reference; and an account that
\* exists can always be deleted, whatever records refer to it.
C12_DeleteNullsReference ==
    /\ [](\A pk \in UserPks : ~IsNone(users[pk]) => ENABLED DeleteUserOf(pk))
    /\ [][\A pk \in UserPks : Deleted(pk) =>
            /\ Len(store') = Len(store)
            /\ \A i \in 1..Len(store) :
                  store'[i] = IF store[i].user = Some(pk)
                              THEN [store[i] EXCEPT !.user = None]
                              ELSE store[i]]_vars

\* alice is gone, her record is still there without a reference, and the
\* record of root still refers to root
C12_Witness ==
    /\ IsNone(users[1])
    /\ \E i \in 1..Len(store) :
          /\ store[i].user = None
          /\ store[i].is_authenticated
          /\ ~store[i].is_staff
    /\ \E i \in 1..Len(store) : store[i].user = Some(2)

\* C13: a record that stays in the table keeps every field, apart from the
\* user reference nulled by the deletion of its account; the only record a
\* step adds is the one the interceptor writes for the request of that step
\* (none is added by the admin's add view); and a record leaves the table
\* only in a delete of the admin asked for by a superuser.
C13_AppendOnly ==
    [][/\ \A i \in 1..Len(store), j \in 1..Len(store') :
             store[i].id = store'[j].id =>
                 \/ store'[j] = store[i]
                 \/ /\ store'[j] = [store[i] EXCEPT !.user = None]
                    /\ \E pk \in UserPks :
                          store[i].user = Some(pk) /\ Deleted(pk)
       /\ \A j \in 1..Len(store') :
             (\A i \in 1..Len(store) : store[i].id # store'[j].id) =>
                 /\ last' # last
                 /\ last'.out.created = Some(store'[j])
       /\ \A i \in 1..Len(store) :
             (\A j \in 1..Len(store') : store[i].id # store'[j].id) =>
                 /\ last' # last
                 /\ ~IsNone(last'.target)
                 /\ Get(last'.target).op \in {"delete", "delete_selected"}
                 /\ last'.request.user.is_superuser]_vars

\* root has deleted record 1 through the admin; the request that did it is
\* on record
C13_Witness ==
    /\ last.op = "request"
    /\ last.target = Some([op |-> "delete", id |-> 1])
    /\ last.request.user.is_superuser
    /\ \A i \in 1..Len(store) : store[i].id # 1
    /\ Logged

---------------------------------------------------------------------------
(* The queries as the specification words them *)

\* the last request was a GET of view by a logged-in caller
Queried(view) ==
    /\ last.op = "request"
    /\ last.out.exc = NoExc
    /\ last.request.path = ViewPath(view)
    /\ last.request.method = "GET"
    /\ last.request.user.is_authenticated

\* what the caller was answered
Answer == last.handler_response

\* a list of records was returned
Listed == Answer.status_code = 200 /\ Answer.body.kind \in {"listing", "logs"}

\* the value given for a parameter of the last request, if any
Asked(key) == GET_get(QueryDict(last.request), key)

Supplied(key) == ~IsNone(Asked(key))

\* the table the query ran on: the row of the query itself came after
TableBefore == IF Logged THEN SubSeq(store, 1, Len(store) - 1) ELSE store

RowById(id) ==
    TableBefore[CHOOSE i \in 1..Len(TableBefore) : TableBefore[i].id = id]

\* the rows of the given primary keys, in that order
RECURSIVE RowsById(_)
RowsById(ids) ==
    IF ids = <<>> THEN <<>>
    ELSE <<RowById(Head(ids))>> \o RowsById(Tail(ids))

\* the returned records, in the order returned
Returned == RowsById(Answer.body.ids)

Fold(text) == [k \in 1..Len(text) |-> Lower(text[k])]

\* term occurs in text, the case of letters disregarded
Occurs(term, text) ==
    \E a, b \in 0..Len(text) :
        b - a = Len(term) /\ Fold(SubSeq(text, a + 1, b)) = Fold(term)

\* the free-text search of the specification: path, method, address or the
\* username of the actor
SearchHit(row, term) ==
    \/ Occurs(term, row.path)
    \/ Occurs(term, MethodText(row.http_method))
    \/ ~IsNone(row.remote_ip) /\ Occurs(term, Get(row.remote_ip))
    \/ /\ ~IsNone(row.user)
       /\ ~IsNone(users[Get(row.user)])
       /\ Occurs(term, Get(users[Get(row.user)]).username)

\* the free-text search without the actor
SearchHitNoActor(row, term) ==
    \/ Occurs(term, row.path)
    \/ Occurs(term, MethodText(row.http_method))
    \/ ~IsNone(row.remote_ip) /\ Occurs(term, Get(row.remote_ip))

\* the status asked for is no integer
StatusUnparseable ==
    Supplied(K_status) /\ Get(Asked(K_status)) # <<>>
        /\ int(Get(Asked(K_status))).exc # NoExc

StatusIs(row, value) ==
    /\ int(value).exc = NoExc
    /\ row.response_status = Some(int(value).val)

\* the rows of the table that satisfy every filter supplied to the listing
ListingExpected ==
    LET search == Asked(K_search)
        method == Asked(K_method)
        status == Asked(K_status)
        auth == Asked(K_auth)
        Satisfies(row) ==
            /\ ~IsNone(search) => SearchHit(row, Get(search))
            /\ ~IsNone(method) =>
                  MethodText(row.http_method) = Get(method)
            /\ ~IsNone(status) => StatusIs(row, Get(status))
            /\ auth = Some(V_authenticated) => row.is_authenticated
            /\ auth = Some(V_anonymous) => ~row.is_authenticated
    IN SelectSeq(TableBefore, Satisfies)

\* the rows of the table that satisfy the filters of the logs API: search
\* over path, method and address, method, status
ApiExpected ==
    LET search == Asked(K_search)
        method == Asked(K_method)
        status == Asked(K_status)
        Satisfies(row) ==
            /\ ~IsNone(search) => SearchHitNoActor(row, Get(search))
            /\ ~IsNone(method) =>
                  MethodText(row.http_method) = Get(method)
            /\ ~IsNone(status) => StatusIs(row, Get(status))
    IN SelectSeq(TableBefore, Satisfies)

\* the rows of the table in which the term asked for occurs
SearchExpected ==
    LET search == Asked(K_search)
        Satisfies(row) == SearchHit(row, Get(search))
    IN SelectSeq(TableBefore, Satisfies)

\* the answer counts the rows of expected and returns only rows of it
AnswersWith(expected) ==
    /\ Listed
    /\ Answer.body.total = Len(expected)
    /\ \A k \in 1..Len(Answer.body.ids) :
          \E i \in 1..Len(expected) : expected[i].id = Answer.body.ids[k]

---------------------------------------------------------------------------
(* C14 .. C20 *)

\* C14: every list of records returned by the listing or by the logs API is
\* in descending timestamp order, whatever the filters, the page and the
\* offset: of two returned records the earlier in the list is not the older.
C14_NewestFirst ==
    \A view \in {"recent_requests", "logs_api"} :
        Queried(view) /\ Listed =>
            LET returned == Returned
            IN \A a, b \in 1..Len(returned) :
                  a < b => returned[a].timestamp >= returned[b].timestamp

\* a filtered page of the logs API with two records written at different
\* moments, and a page of the listing with two records of one moment
C14_Witness ==
    \/ /\ Queried("logs_api") /\ Listed
       /\ Supplied(K_method) /\ Supplied(K_offset)
       /\ Len(Answer.body.ids) >= 2
       /\ Returned[1].timestamp > Returned[2].timestamp
       /\ Returned[1].id > Returned[2].id
    \/ /\ Queried("recent_requests") /\ Listed
       /\ Supplied(K_auth)
       /\ Len(Answer.body.ids) >= 2
       /\ Returned[1].timestamp = Returned[2].timestamp

\* C15 as stated: for every table and every combination of search, method,
\* status and auth the listing matches exactly the records that satisfy
\* every supplied filter (method and status exact, auth by is_authenticated,
\* an absent parameter filtering nothing); shown on the first page.
C15_AsStated ==
    Queried("recent_requests") /\ ~Supplied(K_page) =>
        LET expected == ListingExpected
        IN /\ AnswersWith(expected)
           /\ Len(Answer.body.ids) = Min(Len(expected), ListingPageSize)

\* C16 as stated: a search, on the listing and on the logs API alike,
\* returns a record exactly when the term occurs, the case disregarded, in
\* its path, its method, its address or the username of its actor.
C16_AsStated ==
    \A view \in {"recent_requests", "logs_api"} :
        /\ Queried(view)
        /\ Supplied(K_search)
        /\ \A key \in {K_method, K_status, K_auth, K_page, K_limit, K_offset} :
              ~Supplied(key)
        => LET expected == SearchExpected
           IN AnswersWith(expected)

\* C17 as stated: with a status that is no integer the listing and the logs
\* API answer normally, with no record.
C17_AsStated ==
    \A view \in {"recent_requests", "logs_api"} :
        /\ Queried(view)
        /\ StatusUnparseable
        /\ \A key \in {K_page, K_limit, K_offset} : ~Supplied(key)
        => /\ Listed
           /\ Answer.body.total = 0
           /\ Answer.body.ids = <<>>

\* C18 as stated: the logs API reports min(requested limit, 100) as limit,
\* 10 when none was requested, and returns no more records than the limit
\* it reports, hence at most 100, whatever limit and offset were requested.
C18_AsStated ==
    Queried("logs_api") /\ Listed =>
        /\ Answer.body.limit =
               IF Supplied(K_limit)
               THEN Min(int(Get(Asked(K_limit))).val, 100)
               ELSE 10
        /\ Len(Answer.body.ids) <= Answer.body.limit
        /\ Len(Answer.body.ids) <= 100

\* C19: in an answer of the logs API whose limit and offset are not
\* negative, total_count is the number of records that match the filters of
\* the request (it does not depend on limit and offset); the logs are the
\* records at positions offset .. offset+limit-1 of the matching records in
\* descending timestamp order, max(0, min(limit, total_count - offset)) of
\* them; has_more says whether total_count > offset + limit. limit and offset
\* are those of the answer; the filters are those the logs API has.
C19_Window ==
    /\ Queried("logs_api") /\ Listed
    /\ Answer.body.limit >= 0 /\ Answer.body.offset >= 0
    => LET body == Answer.body
           beyond == body.total - body.offset
           matching == ApiExpected
           returned == Returned
           Newer(row) == {i \in 1..Len(matching) :
                             matching[i].timestamp > row.timestamp}
           NotOlder(row) == {i \in 1..Len(matching) :
                                matching[i].timestamp >= row.timestamp}
       IN /\ body.total = Len(matching)
          /\ Len(body.ids) =
                 IF Min(body.limit, beyond) > 0
                 THEN Min(body.limit, beyond) ELSE 0
          /\ \A k \in 1..Len(body.ids) :
                /\ \E i \in 1..Len(matching) : matching[i].id = body.ids[k]
                /\ Cardinality(Newer(returned[k])) < body.offset + k
                /\ body.offset + k <= Cardinality(NotOlder(returned[k]))
          /\ \A k, m \in 1..Len(body.ids) : k # m => body.ids[k] # body.ids[m]
          /\ body.has_more <=> body.total > body.offset + body.limit

\* a limit of 1000 and an offset of 1 on a table of 101 records: the 100
\* records after the newest, and nothing beyond; and a page cut short by the
\* end of the matching records
C19_Witness ==
    \/ /\ Queried("logs_api") /\ Listed
       /\ Answer.body.offset = 1
       /\ Answer.body.limit = ApiMaxLimit
       /\ Len(Answer.body.ids) = ApiMaxLimit
       /\ ~Answer.body.has_more
    \/ /\ Queried("logs_api") /\ Listed
       /\ Supplied(K_method)
       /\ Answer.body.offset = 1 /\ Answer.body.limit = 10
       /\ Len(Answer.body.ids) = 1
       /\ Answer.body.total = 2

\* C20 as stated: whatever limit and offset are, an authenticated request to
\* the logs API is answered with a page of records, possibly empty.
C20_AsStated ==
    Queried("logs_api") /\ ~StatusUnparseable => Listed

---------------------------------------------------------------------------
(* C21, C27 *)

\* C21: a page of the listing holds the records at positions 20(k-1)+1 ..
\* 20k of the matching records in descending timestamp order, k being the
\* page shown: 20 records on every page but the last, the rest on the last;
\* is_paginated says whether more than 20 records match.
C21_Pages ==
    Queried("recent_requests") /\ Listed =>
        LET body == Answer.body
            matching == ListingExpected
            returned == Returned
            first == ListingPageSize * (body.page - 1)
            Newer(row) == {i \in 1..Len(matching) :
                              matching[i].timestamp > row.timestamp}
            NotOlder(row) == {i \in 1..Len(matching) :
                                 matching[i].timestamp >= row.timestamp}
        IN /\ body.total = Len(matching)
           /\ body.page >= 1
           /\ Len(body.ids) = Min(ListingPageSize, Len(matching) - first)
           /\ ListingPageSize * body.page < Len(matching) =>
                  Len(body.ids) = ListingPageSize
           /\ \A k \in 1..Len(body.ids) :
                 /\ \E i \in 1..Len(matching) : matching[i].id = body.ids[k]
                 /\ Cardinality(Newer(returned[k])) < first + k
                 /\ first + k <= Cardinality(NotOlder(returned[k]))
           /\ \A k, m \in 1..Len(body.ids) : k # m => body.ids[k] # body.ids[m]
           /\ body.is_paginated <=> Len(matching) > ListingPageSize

\* the third and last page of 51 matching records, 11 of them; and a table
\* of fewer than 20 records, on one page
C21_Witness ==
    \/ /\ Queried("recent_requests") /\ Listed
       /\ Supplied(K_method)
       /\ Answer.body.total = 51 /\ Answer.body.page = 3
       /\ Len(Answer.body.ids) = 11
       /\ Answer.body.is_paginated
    \/ /\ Queried("recent_requests") /\ Listed
       /\ Answer.body.total = 2 /\ Len(Answer.body.ids) = 2
       /\ ~Answer.body.is_paginated

\* C27 as stated: for the same table and the same search, method, status and
\* auth, the logs API counts the records that get_queryset of the listing
\* matches.
C27_AsStated ==
    /\ Queried("logs_api") /\ Listed
    /\ \A key \in {K_limit, K_offset} : ~Supplied(key)
    => LET listing == get_queryset(last.request, TableBefore, users)
       IN /\ listing.exc = NoExc
          /\ Answer.body.total = Len(listing.val)
          /\ \A k \in 1..Len(Answer.body.ids) :
                \E i \in 1..Len(listing.val) :
                    listing.val[i].id = Answer.body.ids[k]

---------------------------------------------------------------------------
(* C28 *)

\* C28 as stated: the answer of the logs API or of the statistics API to a
\* logged-in caller counts every record that was in the table when the
\* request arrived, also when the same URL was asked a moment before and a
\* record was written in between.
C28_AsStated ==
    \A view \in {"logs_api", "logs_stats"} :
        Queried(view) /\ Answer.status_code = 200 =>
            Answer.body.total = Len(TableBefore)

---------------------------------------------------------------------------
(* C29 *)

\* C29: in every state every record has is_authenticated set when it refers
\* to a user and when it has is_staff or is_superuser set; a record refers
\* to a user when it is written exactly when its actor is authenticated and
\* has a primary key, and then is_authenticated implies the reference. (The
\* deletion of the user takes the reference away: see the witness.)
C29_ActorFlags ==
    /\ [](\A i \in 1..Len(store) :
             /\ ~IsNone(store[i].user) => store[i].is_authenticated
             /\ store[i].is_staff \/ store[i].is_superuser =>
                    store[i].is_authenticated)
    /\ [][nextId' = nextId + 1 =>
             LET row == store'[Len(store')]
                 actor == last'.request.user
             IN /\ row.id = nextId
                /\ ~IsNone(row.user) <=>
                       actor.is_authenticated /\ ~IsNone(actor.pk)
                /\ row.is_authenticated = actor.is_authenticated
                /\ row.is_authenticated => row.user = actor.pk]_vars

\* a record of an authenticated actor whose account was deleted since, next
\* to one of a superuser that still refers to its account
C29_Witness ==
    \E i, j \in 1..Len(store) :
        /\ store[i].is_authenticated /\ IsNone(store[i].user)
        /\ store[j].is_superuser /\ ~IsNone(store[j].user)

---------------------------------------------------------------------------
(* C26 *)

\* the requests whose process_response has returned
Done == {i \in 1..Len(inflight) : inflight[i].pc = "done"}

\* those of them that the exclusion rule lets through
DoneLogged ==
    {i \in Done : ~MatchesExclusionRule(config, inflight[i].request)}

\* the record of the table that request i wrote
RowOf(i) ==
    store[CHOOSE k \in 1..Len(store) :
              store[k].id = Get(inflight[i].out.created).id]

---------------------------------------------------------------------------
(* C30 *)

\* C30: a request through RequestLoggingMiddlewareAsync is answered as
\* RequestLoggingMiddleware answers the same request with the same handler
\* response, settings and table, and it leaves the table that
\* RequestLoggingMiddleware leaves: the same record, or none.
C30_AsStated ==
    [][last'.op = "async" =>
         LET sync == Call(config, last'.request, last'.handler_response,
                          last'.t0, last'.t1, nextId, last'.dbFails)
         IN /\ last'.out.exc = sync.exc
            /\ last'.out.response = sync.response
            /\ store' = IF IsNone(sync.created) THEN store
                        ELSE Append(store, Get(sync.created))]_vars

---------------------------------------------------------------------------
(* The aggregates as the specification words them *)

\* the statistics the last step computed, by a call of get_stats or in the
\* answer of the statistics API to the first request of a run, which no
\* cached page can answer
StatsComputed ==
    \/ last.op = "get_stats"
    \/ Queried("logs_stats") /\ Answer.status_code = 200 /\ tally.handled = 1

TheStats == IF last.op = "get_stats" THEN last.out ELSE Answer.body.data

\* how many records of the table have a status from lo up to, not
\* including, hi
WithStatus(lo, hi) ==
    Cardinality({i \in 1..Len(TableBefore) :
        /\ ~IsNone(TableBefore[i].response_status)
        /\ lo <= Get(TableBefore[i].response_status)
        /\ Get(TableBefore[i].response_status) < hi})

---------------------------------------------------------------------------
(* C22 *)

\* C22: get_stats counts every record in total_requests, the records with
\* a status from 200 to 299 in successful_requests, from 400 to 499 in
\* client_errors and from 500 to 599 in server_errors; a record without a
\* status or with another status is counted in the total only; and the
\* three counts are the numbers of records whose is_successful,
\* is_client_error and is_server_error hold.
C22_Counts ==
    StatsComputed =>
        /\ TheStats.total_requests = Len(TableBefore)
        /\ TheStats.successful_requests = WithStatus(200, 300)
        /\ TheStats.client_errors = WithStatus(400, 500)
        /\ TheStats.server_errors = WithStatus(500, 600)
        /\ TheStats.successful_requests =
              Cardinality({i \in 1..Len(TableBefore) :
                              is_successful(TableBefore[i])})
        /\ TheStats.client_errors =
              Cardinality({i \in 1..Len(TableBefore) :
                              is_client_error(TableBefore[i])})
        /\ TheStats.server_errors =
              Cardinality({i \in 1..Len(TableBefore) :
                              is_server_error(TableBefore[i])})

\* five records, one without a status and one answered 302, of which
\* get_stats counts one in each class
C22_Witness ==
    /\ last.op = "get_stats"
    /\ \E i \in 1..Len(store) : IsNone(store[i].response_status)
    /\ \E i \in 1..Len(store) : store[i].response_status = Some(302)
    /\ last.out.total_requests = 5
    /\ last.out.successful_requests = 1
    /\ last.out.client_errors = 1
    /\ last.out.server_errors = 1

---------------------------------------------------------------------------
(* C23 *)

\* C23: get_stats returns for every table, the empty one included; the
\* three classes together count no more than the total; success_rate plus
\* error_rate is not above 100; and on the empty table every count and
\* both rates are 0.
C23_AsStated ==
    last.op = "get_stats" =>
        /\ TheStats.successful_requests + TheStats.client_errors
              + TheStats.server_errors <= TheStats.total_requests
        /\ ~float_gt(float_add(TheStats.success_rate, TheStats.error_rate),
                     float(100))
        /\ TheStats.total_requests = 0 =>
              /\ TheStats.successful_requests = 0
              /\ TheStats.client_errors = 0
              /\ TheStats.server_errors = 0
              /\ TheStats.success_rate.m = <<>>
              /\ TheStats.error_rate.m = <<>>

---------------------------------------------------------------------------
(* C24 *)

TopCalls == {"get_top_paths", "get_top_ips", "get_top_users"}

RECURSIVE SumOfCounts(_)
SumOfCounts(groups) ==
    IF groups = <<>> THEN 0 ELSE groups[1].count + SumOfCounts(Tail(groups))

\* the column a call groups by
GroupField(op) ==
    CASE op = "get_top_paths" -> "path"
      [] op = "get_top_ips" -> "remote_ip"
      [] op = "get_top_users" -> "user__username"
      [] op = "get_method_distribution" -> "http_method"

\* the records a call groups: get_top_users leaves out those without an
\* account
Grouped(op) ==
    {i \in 1..Len(store) : op = "get_top_users" => ~IsNone(store[i].user)}

\* the key of record i for a call
KeyOf(op, i) ==
    CASE op = "get_top_paths" -> store[i].path
      [] op = "get_top_ips" -> store[i].remote_ip
      [] op = "get_top_users" -> Get(users[Get(store[i].user)]).username
      [] op = "get_method_distribution" -> store[i].http_method

HowMany(op, key) == Cardinality({i \in Grouped(op) : KeyOf(op, i) = key})

AllKeys(op) == {KeyOf(op, i) : i \in Grouped(op)}

\* groups has one group per key it names, each with the count of its key,
\* in non-increasing order of count, and no key it leaves out has more
\* records than one it names
RankedGroups(op, groups) ==
    /\ \A i \in 1..Len(groups) :
          /\ DOMAIN groups[i] = {GroupField(op), "count"}
          /\ groups[i][GroupField(op)] \in AllKeys(op)
          /\ groups[i].count = HowMany(op, groups[i][GroupField(op)])
    /\ \A i, j \in 1..Len(groups) :
          i < j => /\ groups[i][GroupField(op)] # groups[j][GroupField(op)]
                   /\ groups[i].count >= groups[j].count
    /\ \A key \in AllKeys(op) :
          (\A i \in 1..Len(groups) : groups[i][GroupField(op)] # key) =>
              \A i \in 1..Len(groups) : groups[i].count >= HowMany(op, key)

\* C24: get_top_paths, get_top_ips and get_top_users with a limit return
\* the limit's number of groups, or every group when there are fewer, one
\* per key, each with the number of records of its key, in non-increasing
\* order of count, leaving out no group larger than one returned;
\* get_method_distribution returns every method so, and its counts add up
\* to the number of records; on the empty table each returns nothing.
C24_TopGroups ==
    /\ (last.op \in TopCalls /\ last.out.exc = NoExc) =>
          /\ Len(last.out.val) =
                Min(last.target[1], Cardinality(AllKeys(last.op)))
          /\ RankedGroups(last.op, last.out.val)
          /\ store = <<>> => last.out.val = <<>>
    /\ last.op = "get_method_distribution" =>
          /\ Len(last.out.val) = Cardinality(AllKeys(last.op))
          /\ RankedGroups(last.op, last.out.val)
          /\ store = <<>> => last.out.val = <<>>
          /\ SumOfCounts(last.out.val) = Len(store)

\* the two most requested of three paths, the first with more records than
\* the second and the third, left out, with no more than the second
C24_Witness ==
    /\ last.op = "get_top_paths"
    /\ last.target = <<2>>
    /\ Cardinality(AllKeys(last.op)) = 3
    /\ Len(last.out.val) = 2
    /\ last.out.val[1].count > last.out.val[2].count
    /\ \E key \in AllKeys(last.op) :
          /\ \A i \in 1..2 : last.out.val[i].path # key
          /\ HowMany(last.op, key) = last.out.val[2].count

---------------------------------------------------------------------------
(* C25 *)

\* the hour of day of a record, from its timestamp in microseconds
HourOfDay(row) == ((row.timestamp \div 1000000) \div 3600 + TimeZeroHour) % 24

\* the decimal numeral of an hour of day
HourText(h) ==
    IF h < 10 THEN <<DigitChar(h)>>
    ELSE <<DigitChar(h \div 10), DigitChar(h - 10 * (h \div 10))>>

\* C25: get_hourly_distribution returns, on every table and without an
\* error, one entry for each hour of day in which a record was written and
\* for no other, with the hour as a numeral and the number of records
\* written in it, the entries in ascending order of the hour as a number;
\* the counts add up to the number of records and the empty table gives
\* the empty list.
C25_AsStated ==
    last.op = "get_hourly_distribution" =>
        /\ last.out.exc = NoExc
        /\ \A h \in 0..23 :
              (\E i \in 1..Len(store) : HourOfDay(store[i]) = h) <=>
              (\E k \in 1..Len(last.out.val) :
                  last.out.val[k].hour = HourText(h))
        /\ \A k \in 1..Len(last.out.val) :
              \E h \in 0..23 :
                  /\ last.out.val[k].hour = HourText(h)
                  /\ last.out.val[k].count =
                        Cardinality({i \in 1..Len(store) :
                                        HourOfDay(store[i]) = h})
                  /\ \A j \in 1..(k - 1) :
                        \E g \in 0..(h - 1) :
                            last.out.val[j].hour = HourText(g)
        /\ SumOfCounts(last.out.val) = Len(store)
        /\ store = <<>> => last.out.val = <<>>

=============================================================================
